---- MODULE Spec2Model ----
(***************************************************************************)
(* A model of the gravity library: the loose dynamic octree (BoundingBox,  *)
(* Node, Octree), the memoising MassCalculator and the BarnesHutAlgorithm  *)
(* evaluator.  Lengths are integers in units of 1/8 of a length unit, so   *)
(* that the halvings the code performs on doubles are exact here too.      *)
(***************************************************************************)
EXTENDS Integers, Sequences, FiniteSets, TLC

\* ------------------------------------------------------------------ bounds

NumParticles == 3      \* particle handles the caller owns
Capacity == 1          \* node_capacity the Octree is constructed with
GrowthLimit == 1       \* growth_limit the Octree is constructed with
ShrinkLimit == 1       \* shrink_limit the Octree is constructed with
MinWidth == 8          \* min_width the Octree is constructed with (1.0)
MaxMoves == 1          \* particles the caller moves between two Updates
NumThreads == 2        \* threads that call the MassCalculator
NumLockThreads == 3    \* threads that call the BarnesHutAlgorithm at once
MaxCacheUses == 2      \* nodes one walk asks the MassCalculator for
PoolThreads == 2       \* threads the ThreadPool is constructed with
MaxItems == 3          \* longest range handed to a parallel for-each
MaxTasks == 3          \* largest task_count handed to a parallel for-each
NumProducers == 2      \* threads that push on the TaskQueue
MaxPushes == 3         \* calls of TaskQueue::Push

\* -------------------------------------------------------- program constants

Dimensions == 3        \* geometry::Dimensions
LoosenessNum == 5      \* DefaultLooseness = 1.25 = 5/4
LoosenessDen == 4
DefaultApproximationThreshold == 1

Axes == 1..Dimensions
Orthants == 0..(2^Dimensions - 1)
Null == 0              \* an empty std::shared_ptr<Particle>
Particles == 1..NumParticles

\* The bounds the Octree is constructed with: centre 0, width 16.0
InitCentre == [i \in Axes |-> 0]
InitWidth == [i \in Axes |-> 128]

\* Displacements the caller gives to particles
PosA == <<24, 24, 24>>
PosB == <<40, 24, 24>>
PosD == <<0, 0, 0>>
PosF == <<128, 128, 128>>
PosH == <<128, 0, 0>>
PosZ == <<1024, 1024, 1024>>
PosE == <<72, 0, 0>>    \* within the loose root bounds, beyond the tight ones
Positions == {PosA, PosB, PosD, PosF, PosH, PosZ}
Home == PosD

Mass(p) == p
Radius(p) == [i \in Axes |-> 1]

\* ---------------------------------------------------------------- Vector

VAdd(v, w) == [i \in Axes |-> v[i] + w[i]]
VScale(k, v) == [i \in Axes |-> k * v[i]]

\* ----------------------------------------------------------------- Orthant

\* Orthant::IsAxisAligned: bit `digit` clear
IsAxisAligned(q, i) == (q \div (2^(i - 1))) % 2 = 0

\* Orthant::Invert: flip every bit
Invert(q) == (2^Dimensions - 1) - q

\* ------------------------------------------------------------- BoundingBox

\* BoundingBox::BoundingBox(centre, width): stores half the width
BoundingBox(centre, width) ==
    [centre |-> centre, extents |-> [i \in Axes |-> width[i] \div 2]]

\* Particle::Bounds with the displacement ps[p] and the particle's radius
\* (set through BoundingBox::Extents, which stores the extents as given)
PBounds(p, ps) == [centre |-> ps[p], extents |-> Radius(p)]

\* BoundingBox::Contains(box, looseness), looseness = LoosenessNum/LoosenessDen:
\* an axis fails only if both the minimum and the maximum lie outside
Contains(b, box) ==
    \A i \in Axes :
        LET half == LoosenessNum * b.extents[i]
            omin == LoosenessDen * (box.centre[i] - box.extents[i])
            omax == LoosenessDen * (box.centre[i] + box.extents[i])
            tmin == LoosenessDen * b.centre[i] - half
            tmax == LoosenessDen * b.centre[i] + half
        IN  ~((omin > tmax \/ omin < tmin) /\ (omax > tmax \/ omax < tmin))

\* BoundingBox::Contains(point, looseness)
ContainsPoint(b, point) ==
    \A i \in Axes :
        LET half == LoosenessNum * b.extents[i]
        IN  ~(LoosenessDen * point[i] > LoosenessDen * b.centre[i] + half
              \/ LoosenessDen * point[i] < LoosenessDen * b.centre[i] - half)

\* an Orthant(point) that puts a point level with the centre on the negative
\* side
RECURSIVE OrthantBitsStrict(_, _, _)
OrthantBitsStrict(b, point, i) ==
    IF i > Dimensions THEN 0
    ELSE (IF point[i] > b.centre[i] THEN 0 ELSE 2^(i - 1))
         + OrthantBitsStrict(b, point, i + 1)

\* BoundingBox::Orthant(point): bit i set iff point[i] < centre[i]
RECURSIVE OrthantBits(_, _, _)
OrthantBits(b, point, i) ==
    IF i > Dimensions THEN 0
    ELSE (IF point[i] >= b.centre[i] THEN 0 ELSE 2^(i - 1))
         + OrthantBits(b, point, i + 1)

OrthantOf(b, point) == OrthantBits(b, point, 1)

\* BoundingBox::ShrinkTo: halves the extents, shifts the centre by them and
\* returns { centre, extents } through the (centre, width) constructor
ShrinkTo(b, q) ==
    LET extents == [i \in Axes |-> b.extents[i] \div 2]
        centre == [i \in Axes |->
                     IF IsAxisAligned(q, i) THEN b.centre[i] + extents[i]
                     ELSE b.centre[i] - extents[i]]
    IN  BoundingBox(centre, extents)

\* BoundingBox::ExpandFrom: doubles the extents, shifts the centre by them and
\* returns { centre, extents } through the (centre, width) constructor
ExpandFrom(b, q) ==
    LET extents == [i \in Axes |-> b.extents[i] * 2]
        centre == [i \in Axes |->
                     IF IsAxisAligned(q, i) THEN b.centre[i] - extents[i]
                     ELSE b.centre[i] + extents[i]]
    IN  BoundingBox(centre, extents)

\* -------------------------------------------------------------------- Node

\* Node::Node(bounds): a leaf without particles
Leaf(bounds) == [bounds |-> bounds, particles |-> <<>>, children |-> <<>>]

IsLeaf(node) == node.children = <<>>

Range(s) == {s[i] : i \in DOMAIN s}

\* a node that passes for minimum width whatever its extents
AnyWidth(node) == TRUE

\* Node::IsMinWidth: any extent <= min_width / 2
IsMinWidth(node) == \E i \in Axes : 2 * node.bounds.extents[i] <= MinWidth

\* Node::NearestChild, as an index into children (1-based)
NearestChild(node, p, ps) == OrthantOf(node.bounds, ps[p]) + 1

\* a local variable: x is evaluated once and F applied to its value
With(x, F(_)) == CHOOSE y \in {F(v) : v \in {x}} : TRUE

RECURSIVE NodeInsert(_, _, _)
RECURSIVE BranchLoop(_, _, _, _)

\* Node::Branch: 2^D children, then push the particles down where possible
Branch(node, ps) ==
    BranchLoop([node EXCEPT !.children =
                    [q \in 1..(2^Dimensions) |-> Leaf(ShrinkTo(node.bounds, q - 1))]],
               node.particles, <<>>, ps)

BranchLoop(n, todo, kept, ps) ==
    IF todo = <<>> THEN [n EXCEPT !.particles = kept]
    ELSE With(NearestChild(n, Head(todo), ps), LAMBDA q :
         With(NodeInsert(n.children[q], Head(todo), ps), LAMBDA r :
            IF r.ok
            THEN With([n EXCEPT !.children[q] = r.node], LAMBDA n1 :
                    BranchLoop(n1, Tail(todo), kept, ps))
            ELSE With(Append(kept, Head(todo)), LAMBDA k1 :
                    BranchLoop(n, Tail(todo), k1, ps))))

\* Node::Insert
NodeInsert(node, p, ps) ==
    IF p = Null \/ ~Contains(node.bounds, PBounds(p, ps))
    THEN [ok |-> FALSE, node |-> node]
    ELSE IF IsLeaf(node) /\ (Len(node.particles) < Capacity \/ IsMinWidth(node))
    THEN [ok |-> TRUE, node |-> [node EXCEPT !.particles = Append(@, p)]]
    ELSE With(IF IsLeaf(node) THEN Branch(node, ps) ELSE node, LAMBDA n1 :
         With(NearestChild(n1, p, ps), LAMBDA q :
         With(NodeInsert(n1.children[q], p, ps), LAMBDA r :
            IF r.ok
            THEN [ok |-> TRUE, node |-> [n1 EXCEPT !.children[q] = r.node]]
            ELSE [ok |-> TRUE, node |-> [n1 EXCEPT !.particles = Append(@, p)]])))

RECURSIVE SumLen(_, _)
SumLen(children, i) ==
    IF i > Len(children) THEN 0
    ELSE Len(children[i].particles) + SumLen(children, i + 1)

\* Node::ShouldMerge: this node's particles and its children's own particles
ShouldMerge(node) == Len(node.particles) + SumLen(node.children, 1) <= Capacity

RECURSIVE Splice(_, _)
Splice(children, i) ==
    IF i > Len(children) THEN <<>>
    ELSE children[i].particles \o Splice(children, i + 1)

\* Node::Merge
Merge(node) ==
    [node EXCEPT !.particles = @ \o Splice(node.children, 1), !.children = <<>>]

\* std::list::remove: every element equal to p
RECURSIVE ListRemove(_, _)
ListRemove(s, p) ==
    IF s = <<>> THEN <<>>
    ELSE IF Head(s) = p THEN ListRemove(Tail(s), p)
    ELSE <<Head(s)>> \o ListRemove(Tail(s), p)

\* Node::Remove
RECURSIVE NodeRemove(_, _, _)
NodeRemove(node, p, ps) ==
    IF p = Null THEN [ok |-> FALSE, node |-> node]
    ELSE IF p \in Range(node.particles)
    THEN [ok |-> TRUE, node |-> [node EXCEPT !.particles = ListRemove(@, p)]]
    ELSE IF IsLeaf(node) THEN [ok |-> FALSE, node |-> node]
    ELSE With(NearestChild(node, p, ps), LAMBDA q :
         With(NodeRemove(node.children[q], p, ps), LAMBDA r :
         With([node EXCEPT !.children[q] = r.node], LAMBDA n1 :
            IF ~r.ok THEN [ok |-> FALSE, node |-> node]
            ELSE [ok |-> TRUE, node |-> IF ShouldMerge(n1) THEN Merge(n1) ELSE n1])))

\* Node::Empty
RECURSIVE Empty(_)
Empty(node) ==
    node.particles = <<>> /\ \A i \in DOMAIN node.children : Empty(node.children[i])

\* Node::OneChildHasParticles: the set of children that are not Empty
NonEmptyChildren(node) == {i \in DOMAIN node.children : ~Empty(node.children[i])}

\* a Shrink that does not look at the node's own particles
ShrinkOverParticles(node) ==
    IF IsLeaf(node) \/ Cardinality(NonEmptyChildren(node)) # 1
    THEN [ok |-> FALSE, node |-> node]
    ELSE [ok |-> TRUE, node |-> node.children[CHOOSE i \in NonEmptyChildren(node) : TRUE]]

\* Node::Shrink
Shrink(node) ==
    IF IsLeaf(node) \/ node.particles # <<>> \/ Cardinality(NonEmptyChildren(node)) # 1
    THEN [ok |-> FALSE, node |-> node]
    ELSE [ok |-> TRUE, node |-> node.children[CHOOSE i \in NonEmptyChildren(node) : TRUE]]

\* a Grow that does not invert the orthant of the point
GrowNotInverted(node, point, ps) ==
    With(OrthantOf(node.bounds, point), LAMBDA orthant :
    With(ExpandFrom(node.bounds, orthant), LAMBDA expanded :
        IF IsLeaf(node) THEN [node EXCEPT !.bounds = expanded]
        ELSE With(Branch(Leaf(expanded), ps), LAMBDA new :
                [new EXCEPT !.children[orthant + 1] = node])))

\* Node::Grow
Grow(node, point, ps) ==
    With(Invert(OrthantOf(node.bounds, point)), LAMBDA orthant :
    With(ExpandFrom(node.bounds, orthant), LAMBDA expanded :
        IF IsLeaf(node) THEN [node EXCEPT !.bounds = expanded]
        ELSE With(Branch(Leaf(expanded), ps), LAMBDA new :
                [new EXCEPT !.children[orthant + 1] = node])))

\* Octree::GetParticles: this node's particles, then each child's
RECURSIVE GetParticles(_)
RECURSIVE GetChildParticles(_, _)
GetParticles(node) == node.particles \o GetChildParticles(node.children, 1)
GetChildParticles(children, i) ==
    IF i > Len(children) THEN <<>>
    ELSE GetParticles(children[i]) \o GetChildParticles(children, i + 1)

\* ------------------------------------------------------------------ Octree

\* Octree::Insert, the loop that grows the root up to growth_limit
RECURSIVE GrowLoop(_, _, _, _)
GrowLoop(node, rs, p, ps) ==
    IF rs < GrowthLimit
    THEN With(Grow(node, ps[p], ps), LAMBDA g :
         With(NodeInsert(g, p, ps), LAMBDA r :
            IF r.ok THEN [ok |-> TRUE, node |-> r.node, resized |-> rs + 1]
            ELSE GrowLoop(g, rs + 1, p, ps)))
    ELSE [ok |-> FALSE, node |-> node, resized |-> rs]

\* Octree::Insert and Octree::Remove, the loop that shrinks the root
RECURSIVE ShrinkLoop(_, _)
ShrinkLoop(node, rs) ==
    IF rs > -ShrinkLimit
    THEN With(Shrink(node), LAMBDA s :
            IF s.ok THEN With(s.node, LAMBDA n1 : ShrinkLoop(n1, rs - 1))
            ELSE [node |-> node, resized |-> rs])
    ELSE [node |-> node, resized |-> rs]

\* Octree::Insert
OctreeInsert(node, rs, p, ps) ==
    With(NodeInsert(node, p, ps), LAMBDA r :
        IF r.ok THEN [ok |-> TRUE, node |-> r.node, resized |-> rs]
        ELSE With(GrowLoop(node, rs, p, ps), LAMBDA g :
                IF g.ok THEN g
                ELSE With(ShrinkLoop(g.node, g.resized), LAMBDA s :
                        [ok |-> FALSE, node |-> s.node, resized |-> s.resized])))

\* Octree::Remove
OctreeRemove(node, rs, p, ps) ==
    With(NodeRemove(node, p, ps), LAMBDA r :
        IF ~r.ok THEN [ok |-> FALSE, node |-> node, resized |-> rs]
        ELSE With(ShrinkLoop(r.node, rs), LAMBDA s :
                [ok |-> TRUE, node |-> s.node, resized |-> s.resized]))

Reverse(s) == [i \in 1..Len(s) |-> s[Len(s) + 1 - i]]

\* Node::Update(removed, ...), the sweep that re-inserts the particles removed
\* at descendants: those inserted are erased from the list
RECURSIVE ReinsertLoop(_, _, _, _)
ReinsertLoop(node, todo, left, ps) ==
    IF todo = <<>> THEN [node |-> node, removed |-> left]
    ELSE With(NodeInsert(node, Head(todo), ps), LAMBDA r :
            IF r.ok THEN With(r.node, LAMBDA n1 : ReinsertLoop(n1, Tail(todo), left, ps))
            ELSE With(Append(left, Head(todo)), LAMBDA l1 :
                    ReinsertLoop(node, Tail(todo), l1, ps)))

\* Node::Update(removed, looseness, min_width, capacity)
RECURSIVE NodeUpdate(_, _, _)
RECURSIVE UpdateChildren(_, _, _, _)
UpdateChildren(node, i, removed, ps) ==
    IF i > Len(node.children) THEN [node |-> node, removed |-> removed]
    ELSE With(NodeUpdate(node.children[i], removed, ps), LAMBDA u :
         With([node EXCEPT !.children[i] = u.node], LAMBDA n1 :
         With(u.removed, LAMBDA r1 :
            UpdateChildren(n1, i + 1, r1, ps))))

NodeUpdate(node, removed, ps) ==
    With(UpdateChildren(node, 1, removed, ps), LAMBDA c :
        LET Bounded(p) == p # Null /\ Contains(c.node.bounds, PBounds(p, ps))
            Unbounded(p) == ~Bounded(p)
        IN  \* unbounded particles are spliced to the front, one at a time
            With(Reverse(SelectSeq(c.node.particles, Unbounded)), LAMBDA front :
            With([c.node EXCEPT !.particles = SelectSeq(@, Bounded)], LAMBDA n1 :
            With(ReinsertLoop(n1, c.removed, <<>>, ps), LAMBDA r :
                [node |-> IF ~IsLeaf(r.node) /\ ShouldMerge(r.node) THEN Merge(r.node)
                          ELSE r.node,
                 removed |-> front \o r.removed]))))

\* Octree::Update, the loop that re-inserts the particles the root returned
RECURSIVE UpdateInsertLoop(_, _, _, _, _)
UpdateInsertLoop(node, rs, todo, left, ps) ==
    IF todo = <<>> THEN [node |-> node, resized |-> rs, removed |-> left]
    ELSE With(OctreeInsert(node, rs, Head(todo), ps), LAMBDA r :
         With(IF r.ok THEN left ELSE Append(left, Head(todo)), LAMBDA l1 :
            UpdateInsertLoop(r.node, r.resized, Tail(todo), l1, ps)))

\* Octree::Update
OctreeUpdate(node, rs, ps) ==
    With(NodeUpdate(node, <<>>, ps), LAMBDA u :
        IF GrowthLimit = 0 \/ GrowthLimit = rs
        THEN [node |-> u.node, resized |-> rs, removed |-> u.removed]
        ELSE UpdateInsertLoop(u.node, rs, u.removed, <<>>, ps))

\* ------------------------------------------------------------------- state

VARIABLES
    root,      \* Octree::root_
    resized,   \* Octree::resized_
    pos,       \* each particle's displacement (the caller's to change)
    moves,     \* how many times the caller moved a particle since the last Update
    last,      \* the last call made on the Octree, its arguments and result
    cache,     \* MassCalculator::cache_: node -> CacheEntry
    computed,  \* per node, the threads that ran the computation since the last clear
    stack,     \* per thread, the frames of its FindOrCalculate recursion
    ret,       \* per thread, the node and result of the Calculate it last returned from
    hasTree,   \* BarnesHutAlgorithm::tree_ is not null (the tree is root, pos, resized)
    hasField,  \* BarnesHutAlgorithm::field_ is not null
    threshold, \* BarnesHutAlgorithm::threshold_
    mutex,     \* BarnesHutAlgorithm::mutex_: the threads that hold it shared, or exclusively
    bh,        \* per thread, the BarnesHutAlgorithm call it is in and what the call computed
    pool       \* the ThreadPool: its TaskQueue, its workers, the tasks and their caller

octVars == <<root, resized, pos, moves, last>>
mcVars == <<cache, computed, stack, ret>>
bhVars == <<hasTree, hasField, threshold, mutex, bh>>
tpVars == <<pool>>
vars == <<root, resized, pos, moves, last, cache, computed, stack, ret,
          hasTree, hasField, threshold, mutex, bh, pool>>

\* Octree::Particles, as a set
Held(node) == Range(GetParticles(node))

\* A particle the tree does not hold is the caller's alone: its displacement
\* is kept at Home until it is inserted again
Settle(held, ps) == [p \in Particles |-> IF p \in held THEN ps[p] ELSE Home]

\* the call, its arguments, what it returned and the particles held before it
Call(op, p, at, ok, removed, held) ==
    [op |-> op, p |-> p, at |-> at, ok |-> ok, removed |-> removed, preHeld |-> held]

Threads == 1..NumThreads
None == <<>>

\* a MassCalculator nobody has called
McIdle ==
    /\ cache = <<>>
    /\ computed = <<>>
    /\ stack = [t \in Threads |-> <<>>]
    /\ ret = [t \in Threads |-> None]

Idle == [op |-> "idle", subject |-> Null, out |-> <<>>, cleared |-> 0]

\* ThreadPool::ThreadPool(PoolThreads): the queue is open and empty, every
\* worker is at the top of its loop, nothing has been submitted
Workers == 1..PoolThreads
NoCall == [pc |-> "idle", op |-> "none", n |-> 0, blocks |-> <<>>, k |-> 0,
           errors |-> <<>>, raised |-> "none", message |-> <<>>]
NewPool ==
    [queue |-> <<>>,
     closed |-> FALSE,
     tasks |-> <<>>,
     fails |-> {},
     calls |-> [i \in 0..(MaxItems + MaxTasks) |-> 0],
     worker |-> [w \in Workers |-> [pc |-> "check", task |-> 0]],
     caller |-> NoCall,
     dtor |-> "none",
     crashed |-> FALSE]
TpNone == pool = NewPool

\* no BarnesHutAlgorithm owns the tree
BhNone ==
    /\ hasTree = FALSE
    /\ hasField = FALSE
    /\ threshold = DefaultApproximationThreshold
    /\ mutex = [readers |-> {}, writer |-> 0]
    /\ bh = [t \in Threads |-> Idle]

\* Octree::Octree
OctInit ==
    /\ root = Leaf(BoundingBox(InitCentre, InitWidth))
    /\ resized = 0
    /\ pos = [p \in Particles |-> Home]
    /\ moves = 0
    /\ last = Call("new", Null, Home, TRUE, <<>>, {})
    /\ McIdle
    /\ BhNone
    /\ TpNone

\* the caller places particle p at x and calls Octree::Insert(p)
Insert(p, x, held) ==
    \E ps \in {[pos EXCEPT ![p] = x]} : \E r \in {OctreeInsert(root, resized, p, ps)} :
        /\ root' = r.node
        /\ resized' = r.resized
        /\ pos' = Settle(Held(r.node), ps)
        /\ last' = Call("Insert", p, x, r.ok, <<>>, held)
        /\ UNCHANGED <<moves, mcVars, bhVars, tpVars>>

\* the caller calls Octree::Remove(p)
Remove(p, held) ==
    \E r \in {OctreeRemove(root, resized, p, pos)} :
        /\ root' = r.node
        /\ resized' = r.resized
        /\ pos' = Settle(Held(r.node), pos)
        /\ last' = Call("Remove", p, pos[p], r.ok, <<>>, held)
        /\ UNCHANGED <<moves, mcVars, bhVars, tpVars>>

\* the caller moves a particle the tree holds
Move(p, x, held) ==
    /\ moves < MaxMoves
    /\ x # pos[p]
    /\ pos' = [pos EXCEPT ![p] = x]
    /\ moves' = moves + 1
    /\ last' = Call("Move", p, x, TRUE, <<>>, held)
    /\ UNCHANGED <<root, resized, mcVars, bhVars, tpVars>>

\* the caller calls Octree::Update()
Update(held) ==
    \E r \in {OctreeUpdate(root, resized, pos)} :
        /\ root' = r.node
        /\ resized' = r.resized
        /\ pos' = Settle(Held(r.node), pos)
        /\ moves' = 0
        /\ last' = Call("Update", Null, Home, TRUE, r.removed, held)
        /\ UNCHANGED <<mcVars, bhVars, tpVars>>

NextIR ==
    LET held == Held(root)
    IN  \/ \E p \in Particles \ held : \E x \in Positions : Insert(p, x, held)
        \/ \E p \in Particles : Remove(p, held)

\* A step of the caller: particles are moved, then Update is called, before
\* the next Insert or Remove
Next ==
    LET held == Held(root)
    IN  \/ moves = 0 /\ \E p \in Particles \ held : \E x \in Positions : Insert(p, x, held)
        \/ moves = 0 /\ \E p \in Particles : Remove(p, held)
        \/ \E p \in held : \E x \in Positions : Move(p, x, held)
        \/ Update(held)

\* Insert and Remove only: no particle moves while the tree holds it
SpecIR == OctInit /\ [][NextIR]_vars

\* Insert, Remove, Update and the caller's moves
Spec == OctInit /\ [][Next]_vars

\* ------------------------------------------------------- claims on the Octree

\* every node of the subtree
RECURSIVE Nodes(_)
Nodes(node) ==
    {node} \cup UNION {Nodes(node.children[i]) : i \in DOMAIN node.children}

Count(s, p) == Cardinality({i \in DOMAIN s : s[i] = p})

\* C1: after any sequence of Insert and Remove calls, every particle held at a
\* node or at one of its descendants is loosely contained by the node's bounds
LooseContainment ==
    \A n \in Nodes(root) : \A p \in Held(n) : Contains(n.bounds, PBounds(p, pos))

\* C2: when Update returns, every particle the tree held before the call is
\* either held by the tree once or returned once, never both and never neither,
\* and no other particle is returned
UpdateConserves ==
    last.op = "Update" =>
        \A p \in Particles :
            Count(GetParticles(root), p) + Count(last.removed, p)
                = IF p \in last.preHeld THEN 1 ELSE 0

\* C3: a Remove(p) that follows a successful Insert(p) of a particle the tree
\* did not hold returns true and leaves the tree holding the particles it held
\* before the Insert, each once
InsertRemoveRoundTrip ==
    [][(/\ last.op = "Insert" /\ last.ok
        /\ last'.op = "Remove" /\ last'.p = last.p)
       => (/\ last'.ok
           /\ Held(root') = last.preHeld
           /\ \A p \in Particles : Count(GetParticles(root'), p) <= 1)]_vars

\* the box of which b is one orthant, on the side of the point: twice the extents
Doubled(b, point) ==
    LET q == Invert(OrthantOf(b, point))
    IN  [centre |-> [i \in Axes |-> IF IsAxisAligned(q, i)
                                    THEN b.centre[i] - b.extents[i]
                                    ELSE b.centre[i] + b.extents[i]],
         extents |-> [i \in Axes |-> 2 * b.extents[i]]]

RECURSIVE DoubledTimes(_, _, _)
DoubledTimes(b, point, k) ==
    IF k = 0 THEN b ELSE DoubledTimes(Doubled(b, point), point, k - 1)

\* C10: an Insert of a particle the root does not loosely contain, but which k
\* doublings of the root box towards it would, k within what growth_limit
\* leaves, returns true, has grown the root, holds the particle within the
\* root's bounds and still holds every particle held before
GrowOnInsert ==
    [][(/\ last'.op = "Insert"
        /\ LET box == [centre |-> last'.at, extents |-> Radius(last'.p)]
           IN  /\ ~Contains(root.bounds, box)
               /\ \E k \in 1..(GrowthLimit - resized) :
                      Contains(DoubledTimes(root.bounds, last'.at, k), box))
       => (/\ last'.ok
           /\ resized' >= resized + 1
           /\ resized' <= GrowthLimit
           /\ last'.p \in Held(root')
           /\ ContainsPoint(root'.bounds, last'.at)
           /\ Held(root) \subseteq Held(root'))]_vars

\* no box reached from b by at most k doublings towards the point loosely
\* contains the box
OutOfReach(b, box, k) ==
    \A j \in 0..k : ~Contains(DoubledTimes(b, box.centre, j), box)

\* C11: an Insert of a particle that the root cannot loosely contain even
\* after the doublings growth_limit leaves returns false and leaves the resize
\* counter as it was before the call
FailedInsertKeepsResized ==
    [][(/\ last'.op = "Insert"
        /\ resized <= GrowthLimit
        /\ OutOfReach(root.bounds, [centre |-> last'.at, extents |-> Radius(last'.p)],
                      GrowthLimit - resized))
       => (/\ ~last'.ok
           /\ resized' = resized)]_vars

\* the resize counter stays within the two limits
ResizedInRange == -ShrinkLimit <= resized /\ resized <= GrowthLimit

\* C12: in every reachable state the resize counter lies between -shrink_limit
\* and growth_limit, and the root box is the box given at construction doubled
\* (counter positive) or halved (counter negative) that many times
ResizedCountsDoublings ==
    /\ ResizedInRange
    /\ \A i \in Axes :
          root.bounds.extents[i] * 2^(GrowthLimit - resized)
              = BoundingBox(InitCentre, InitWidth).extents[i] * 2^GrowthLimit

\* the leaves of the tree that hold more particles than the capacity
Overfull == {n \in Nodes(root) : IsLeaf(n) /\ Len(n.particles) > Capacity}

\* C13: every leaf that holds more particles than the node capacity is at or
\* below the minimum width: one of its extents is at most min_width / 2
OverfullOnlyAtMinWidth ==
    \A n \in Overfull : \E i \in Axes : 2 * n.bounds.extents[i] <= MinWidth

\* a leaf at the minimum width took a particle beyond the capacity
OverfullLeaf ==
    /\ last.op = "Insert" /\ last.ok
    /\ \E n \in Overfull : last.p \in Range(n.particles)

\* the nodes strictly below a node
Descendants(node) ==
    UNION {Nodes(node.children[i]) : i \in DOMAIN node.children}

\* C14: when Update returns, no particle is held directly by a node that has
\* children while a node strictly below it loosely contains the particle
NoPlacementRegret ==
    last.op = "Update" =>
        \A n \in Nodes(root) : \A p \in Range(n.particles) :
            \A d \in Descendants(n) : ~Contains(d.bounds, PBounds(p, pos))

\* the box lies within b on every axis, with no looseness
Inside(b, box) ==
    \A i \in Axes :
        /\ b.centre[i] - b.extents[i] <= box.centre[i] - box.extents[i]
        /\ box.centre[i] + box.extents[i] <= b.centre[i] + b.extents[i]

\* C15: an Update called while the bounds of every particle of the tree lie
\* within the bounds the Octree was constructed with returns the empty list
UpdateKeepsParticlesInside ==
    [][(/\ last'.op = "Update"
        /\ \A p \in Held(root) :
              Inside(BoundingBox(InitCentre, InitWidth), PBounds(p, pos)))
       => last'.removed = <<>>]_vars

\* ------------------------------------------------------------ MassCalculator

\* A node of the tree is named by the path of child indices that leads to it
RECURSIVE NodeAt(_, _)
NodeAt(node, path) ==
    IF path = <<>> THEN node ELSE NodeAt(node.children[Head(path)], Tail(path))

RECURSIVE Paths(_)
Paths(node) ==
    {<<>>} \cup UNION {{<<i>> \o q : q \in Paths(node.children[i])} : i \in DOMAIN node.children}

\* A displacement is a vector of exact fractions n[i] / d with d > 0
Frac(n, d) == [n |-> n, d |-> d]
FAdd(a, b) == Frac([i \in Axes |-> a.n[i] * b.d + b.n[i] * a.d], a.d * b.d)
FScale(k, a) == Frac(VScale(k, a.n), a.d)
FDiv(a, k) == IF k > 0 THEN Frac(a.n, a.d * k) ELSE Frac(VScale(-1, a.n), a.d * (-k))

\* a default-constructed PointMass
PointMass == [mass |-> 0, displacement |-> Frac([i \in Axes |-> 0], 1)]

\* MassCalculator::Calculate(octree, point_mass), the body of the loop over the children
AddChild(point_mass, result) ==
    [mass |-> point_mass.mass + result.mass,
     displacement |-> FAdd(point_mass.displacement, FScale(result.mass, result.displacement))]

\* MassCalculator::Calculate(octree, point_mass), the loop over the particles
RECURSIVE AddParticles(_, _, _)
AddParticles(point_mass, particles, ps) ==
    IF particles = <<>> THEN point_mass
    ELSE LET p == Head(particles)
         IN  AddParticles([mass |-> point_mass.mass + Mass(p),
                           displacement |-> FAdd(point_mass.displacement,
                                                 FScale(Mass(p), Frac(ps[p], 1)))],
                          Tail(particles), ps)

\* a Calculate that leaves the sum of the moments undivided
NoDivision(point_mass) == point_mass

\* MassCalculator::Calculate(octree, point_mass), the final division
Normalise(point_mass) ==
    IF point_mass.mass # 0
    THEN [point_mass EXCEPT !.displacement = FDiv(point_mass.displacement, point_mass.mass)]
    ELSE point_mass

\* a default-constructed CacheEntry; stale records that the entry is older than
\* the last change of the tree
CacheEntry == [is_cached |-> FALSE, result |-> PointMass, mutex |-> 0, stale |-> FALSE]

Frame(path, pc) == [node |-> path, pc |-> pc, child |-> 1, point_mass |-> PointMass]
Top(t) == stack[t][Len(stack[t])]
At(t, pc) == stack[t] # <<>> /\ Top(t).pc = pc
SetTop(st, f) == [st EXCEPT ![Len(st)] = f]
Goto(t, pc) == stack' = [stack EXCEPT ![t] = SetTop(stack[t], [Top(t) EXCEPT !.pc = pc])]
\* computed[k]: the thread that emplaced the entry of node k, and the threads
\* that ran the computation for k, since the cache was last cleared
Ran(k) == IF k \in DOMAIN computed THEN computed[k].ran ELSE <<>>

\* FindOrCalculate(child) returns result to the frame below, or Calculate(octree)
\* returns it to the caller and releases the shared lock on cache_mutex_
Return(t, stk, result) ==
    LET st == stk[t]
        rest == SubSeq(st, 1, Len(st) - 1)
        done == st[Len(st)].node
    IN  IF rest = <<>>
        THEN /\ stack' = [stk EXCEPT ![t] = <<>>]
             /\ ret' = [ret EXCEPT ![t] = [node |-> done, result |-> result]]
        ELSE LET f == rest[Len(rest)]
                 g == [f EXCEPT !.point_mass = AddChild(f.point_mass, result),
                                !.child = f.child + 1]
             IN  /\ stack' = [stk EXCEPT ![t] = SetTop(rest, g)]
                 /\ UNCHANGED ret

\* MassCalculator::Calculate(octree): take the shared lock, enter FindOrCalculate
McCalculate(t, path) ==
    /\ stack[t] = <<>>
    /\ stack' = [stack EXCEPT ![t] = <<Frame(path, "find")>>]
    /\ ret' = [ret EXCEPT ![t] = None]
    /\ UNCHANGED <<cache, computed>>

\* MassCalculator::FindOrCalculate: cache_.find
McFind(t) ==
    /\ At(t, "find")
    /\ IF Top(t).node \in DOMAIN cache THEN Goto(t, "wait") ELSE Goto(t, "emplace")
    /\ UNCHANGED <<cache, computed, ret>>

\* an emplace that replaces the entry another thread has emplaced
EmplaceTwice(t) ==
    /\ At(t, "emplace")
    /\ Goto(t, "lock")
    /\ cache' = (Top(t).node :> CacheEntry) @@ cache
    /\ computed' = (Top(t).node :> [winner |-> t, ran |-> Ran(Top(t).node)]) @@ computed
    /\ UNCHANGED ret

\* MassCalculator::CalculateAndCache: cache_.emplace, which one thread wins
McEmplace(t) ==
    /\ At(t, "emplace")
    /\ IF Top(t).node \in DOMAIN cache
       THEN Goto(t, "wait") /\ UNCHANGED <<cache, computed>>
       ELSE /\ Goto(t, "lock")
            /\ cache' = (Top(t).node :> CacheEntry) @@ cache
            /\ computed' = (Top(t).node :> [winner |-> t, ran |-> Ran(Top(t).node)]) @@ computed
    /\ UNCHANGED ret

\* MassCalculator::CalculateAndCache: the winner locks the entry's mutex and
\* enters Calculate(octree, point_mass)
McLock(t) ==
    LET k == Top(t).node
    IN  /\ At(t, "lock")
        /\ cache[k].mutex = 0
        /\ cache' = [cache EXCEPT ![k].mutex = t]
        /\ computed' = [computed EXCEPT ![k].ran = Append(@, t)]
        /\ Goto(t, "calculate")
        /\ UNCHANGED ret

\* MassCalculator::Calculate(octree, point_mass): FindOrCalculate(child)
McChild(t) ==
    /\ At(t, "calculate")
    /\ Top(t).child <= Len(NodeAt(root, Top(t).node).children)
    /\ stack' = [stack EXCEPT ![t] = Append(stack[t], Frame(Append(Top(t).node, Top(t).child), "find"))]
    /\ UNCHANGED <<cache, computed, ret>>

\* MassCalculator::Calculate(octree, point_mass) after the children, then the
\* store into the entry and the release of its mutex
McStore(t) ==
    /\ At(t, "calculate")
    /\ \E k \in {Top(t).node} : \E node \in {NodeAt(root, k)} :
        \E point_mass \in {Normalise(AddParticles(Top(t).point_mass, node.particles, pos))} :
        /\ Top(t).child > Len(node.children)
        /\ cache' = [cache EXCEPT ![k].result = point_mass, ![k].is_cached = TRUE, ![k].mutex = 0]
        /\ stack' = [stack EXCEPT ![t] = SetTop(stack[t], [Top(t) EXCEPT !.pc = "notify", !.point_mass = point_mass])]
        /\ UNCHANGED <<computed, ret>>

\* a notify_all that wakes nobody
WakeNobody(k) == stack

\* std::condition_variable::notify_all on the entry of node k
Wake(k) ==
    [u \in Threads |->
        IF stack[u] # <<>> /\ Top(u).node = k /\ Top(u).pc = "asleep"
        THEN SetTop(stack[u], [Top(u) EXCEPT !.pc = "wait"])
        ELSE stack[u]]

\* MassCalculator::CalculateAndCache: notify_all and return point_mass
McNotify(t) ==
    /\ At(t, "notify")
    /\ Return(t, Wake(Top(t).node), Top(t).point_mass)
    /\ UNCHANGED <<cache, computed>>

\* MassCalculator::WaitForResult: lock the entry's mutex, test is_cached, then
\* either return the result or release the mutex and sleep
McWait(t) ==
    LET k == Top(t).node
    IN  /\ At(t, "wait")
        /\ cache[k].mutex = 0
        /\ IF cache[k].is_cached
           THEN Return(t, stack, cache[k].result)
           ELSE Goto(t, "asleep") /\ UNCHANGED ret
        /\ UNCHANGED <<cache, computed>>

\* a ClearCache that drops nothing
KeepCache(c) == c

\* MassCalculator::ClearCache(): cache_.clear()
ClearCache(c) == <<>>

\* MassCalculator::ClearCache(): the exclusive lock waits for every Calculate
McClearCache ==
    /\ \A t \in Threads : stack[t] = <<>>
    /\ cache # <<>>
    /\ cache' = ClearCache(cache)
    /\ computed' = <<>>
    /\ ret' = [t \in Threads |-> None]
    /\ UNCHANGED stack

\* the insertions that build the trees the MassCalculator is called on
McInputs ==
    { <<>>,
      << <<1, PosA>>, <<2, PosD>> >>,
      << <<1, PosA>>, <<2, PosB>>, <<3, PosD>> >>,
      << <<2, PosF>>, <<3, PosA>> >>,
      << <<1, PosE>> >> }

RECURSIVE Build(_, _, _, _)
Build(node, rs, ps, inputs) ==
    IF inputs = <<>> THEN [node |-> node, resized |-> rs, pos |-> ps]
    ELSE With([ps EXCEPT ![Head(inputs)[1]] = Head(inputs)[2]], LAMBDA qs :
         With(OctreeInsert(node, rs, Head(inputs)[1], qs), LAMBDA r :
         With(Settle(Held(r.node), qs), LAMBDA settled :
            Build(r.node, r.resized, settled, Tail(inputs)))))

\* the tree a caller builds by the insertions, starting from an empty Octree
Built(inputs) ==
    Build(Leaf(BoundingBox(InitCentre, InitWidth)), 0, [p \in Particles |-> Home], inputs)

McInit ==
    /\ \E inputs \in McInputs : \E b \in {Built(inputs)} :
        /\ root = b.node
        /\ resized = b.resized
        /\ pos = b.pos
    /\ moves = 0
    /\ last = Call("new", Null, Home, TRUE, <<>>, {})
    /\ McIdle
    /\ BhNone
    /\ TpNone

\* the nodes a caller asks for: the root and every node that holds a particle
McTargets == {k \in Paths(root) : k = <<>> \/ NodeAt(root, k).particles # <<>>}

NextMC ==
    \/ \E t \in Threads : \E k \in McTargets : McCalculate(t, k) /\ UNCHANGED <<octVars, bhVars, tpVars>>
    \/ \E t \in Threads : McFind(t) /\ UNCHANGED <<octVars, bhVars, tpVars>>
    \/ \E t \in Threads : McEmplace(t) /\ UNCHANGED <<octVars, bhVars, tpVars>>
    \/ \E t \in Threads : McLock(t) /\ UNCHANGED <<octVars, bhVars, tpVars>>
    \/ \E t \in Threads : McChild(t) /\ UNCHANGED <<octVars, bhVars, tpVars>>
    \/ \E t \in Threads : McStore(t) /\ UNCHANGED <<octVars, bhVars, tpVars>>
    \/ \E t \in Threads : McNotify(t) /\ UNCHANGED <<octVars, bhVars, tpVars>>
    \/ \E t \in Threads : McWait(t) /\ UNCHANGED <<octVars, bhVars, tpVars>>
    \/ McClearCache /\ UNCHANGED <<octVars, bhVars, tpVars>>

\* concurrent Calculate and ClearCache calls on a tree nobody mutates
SpecMC == McInit /\ [][NextMC]_vars

\* one step of thread t inside a Calculate call it has entered
McStep(t) ==
    /\ McFind(t) \/ McEmplace(t) \/ McLock(t) \/ McChild(t) \/ McStore(t)
         \/ McNotify(t) \/ McWait(t)
    /\ UNCHANGED <<octVars, bhVars, tpVars>>

\* the same calls, every thread that can take a step is eventually scheduled
SpecMCFair == SpecMC /\ \A t \in Threads : WF_vars(McStep(t))

\* -------------------------------------------------------- BarnesHutAlgorithm

\* e < t * sqrt(d2), for integers e, t and d2 >= 0
LessThanScaled(e, t, d2) ==
    IF t >= 0
    THEN e < 0 \/ e * e < t * t * d2
    ELSE e < 0 /\ e * e > t * t * d2

\* the square of ublas::norm_2(v - w)
RECURSIVE SumSquares(_, _, _)
SumSquares(v, w, i) ==
    IF i > Dimensions THEN 0
    ELSE (v[i] - w[i]) * (v[i] - w[i]) + SumSquares(v, w, i + 1)
Norm2Squared(v, w) == SumSquares(v, w, 1)

\* BarnesHutAlgorithm::ShouldApproximate
ShouldApproximate(point, bounds) ==
    \E i \in Axes : LessThanScaled(bounds.extents[i], threshold, Norm2Squared(point, bounds.centre))

\* MassCalculator::Calculate(node) run to completion on cache c:
\* the entries it finds are kept, the ones it misses are computed and stored
RECURSIVE Cached(_, _, _), CachedChildren(_, _, _, _, _)
Cached(c, node, path) ==
    IF path \in DOMAIN c THEN c
    ELSE With(CachedChildren(c, node, path, 1, PointMass), LAMBDA r :
         With(Normalise(AddParticles(r.point_mass, node.particles, pos)), LAMBDA point_mass :
            (path :> [CacheEntry EXCEPT !.is_cached = TRUE, !.result = point_mass]) @@ r.cache))
CachedChildren(c, node, path, i, point_mass) ==
    IF i > Len(node.children) THEN [cache |-> c, point_mass |-> point_mass]
    ELSE With(Append(path, i), LAMBDA k :
         With(Cached(c, node.children[i], k), LAMBDA d :
         With(AddChild(point_mass, d[k].result), LAMBDA sum :
            CachedChildren(d, node, path, i + 1, sum))))

\* a loop over the node's particles that does not skip the subject
RECURSIVE DirectAll(_, _)
DirectAll(particles, subject) ==
    IF particles = <<>> THEN <<>>
    ELSE <<[kind |-> "particle", particle |-> Head(particles)]>>
         \o DirectAll(Tail(particles), subject)

\* BarnesHutAlgorithm::AddAcceleration(Node), the loop over the node's particles:
\* one call of the field per source
RECURSIVE Direct(_, _)
Direct(particles, subject) ==
    IF particles = <<>> THEN <<>>
    ELSE LET other_particle == Head(particles)
         IN  (IF other_particle # Null /\ subject # other_particle
              THEN <<[kind |-> "particle", particle |-> other_particle]>> ELSE <<>>)
             \o Direct(Tail(particles), subject)

\* a walk that stops at a node it approximates: the aggregate stands for the
\* node's particles and for its children
RECURSIVE WalkStopsAtAggregate(_, _, _, _), DescendChildren(_, _, _, _, _)
WalkStopsAtAggregate(node, path, subject, c) ==
    With(ShouldApproximate(pos[subject], node.bounds), LAMBDA approx :
    With(IF approx THEN Cached(c, node, path) ELSE c, LAMBDA d :
        IF approx
        THEN [out |-> <<[kind |-> "node", node |-> path, result |-> d[path].result]>>,
              cache |-> d]
        ELSE DescendChildren(node, path, 1, subject,
                             [out |-> Direct(node.particles, subject), cache |-> d])))
DescendChildren(node, path, i, subject, acc) ==
    IF i > Len(node.children) THEN acc
    ELSE With(WalkStopsAtAggregate(node.children[i], Append(path, i), subject, acc.cache), LAMBDA r :
         With([out |-> acc.out \o r.out, cache |-> r.cache], LAMBDA next :
            DescendChildren(node, path, i + 1, subject, next)))

\* BarnesHutAlgorithm::AddAcceleration(Node): the calls of the field in the
\* order of the walk, and the cache the MassCalculator is left with
RECURSIVE AddAcceleration(_, _, _, _), AddChildren(_, _, _, _, _)
AddAcceleration(node, path, subject, c) ==
    With(ShouldApproximate(pos[subject], node.bounds), LAMBDA approx :
    With(IF approx THEN Cached(c, node, path) ELSE c, LAMBDA d :
    With(IF approx THEN <<[kind |-> "node", node |-> path, result |-> d[path].result]>>
         ELSE <<>>, LAMBDA first :
    With([out |-> first \o Direct(node.particles, subject), cache |-> d], LAMBDA acc :
        AddChildren(node, path, 1, subject, acc)))))
AddChildren(node, path, i, subject, acc) ==
    IF i > Len(node.children) THEN acc
    ELSE With(AddAcceleration(node.children[i], Append(path, i), subject, acc.cache), LAMBDA r :
         With([out |-> acc.out \o r.out, cache |-> r.cache], LAMBDA next :
            AddChildren(node, path, i + 1, subject, next)))

\* the std::shared_mutex of the BarnesHutAlgorithm
LockShared(t) ==
    /\ mutex.writer = 0
    /\ mutex' = [mutex EXCEPT !.readers = @ \cup {t}]

\* an exclusive lock that does not wait for the shared holders
LockOverReaders(t) ==
    /\ mutex.writer = 0
    /\ mutex' = [mutex EXCEPT !.writer = t]

LockExclusive(t) ==
    /\ mutex.writer = 0
    /\ mutex.readers = {}
    /\ mutex' = [mutex EXCEPT !.writer = t]

\* thread t is in call op; cleared counts the cache entries the call dropped
In(t, op, subject, out, cleared) ==
    /\ bh[t] = Idle
    /\ bh' = [bh EXCEPT ![t] = [op |-> op, subject |-> subject, out |-> out, cleared |-> cleared]]

\* before the BarnesHutAlgorithm clears the cache the entries are marked as
\* older than the change of the tree that follows
MarkStale(c) == [k \in DOMAIN c |-> [c[k] EXCEPT !.stale = TRUE]]

\* a getter that hands out the tree and keeps it too
TreeLeftBehind ==
    /\ hasTree' = hasTree
    /\ UNCHANGED <<root, resized, pos, moves>>

\* the tree a caller holds outside the algorithm is not followed
NoTree ==
    /\ hasTree' = FALSE
    /\ root' = Leaf(BoundingBox(InitCentre, InitWidth))
    /\ resized' = 0
    /\ pos' = [p \in Particles |-> Home]
    /\ moves' = 0

\* the thresholds, fields and trees the callers pass in
BhThresholds == {-1, 0, 1}

Installed(inputs) ==
    \E b \in {Built(inputs)} :
        /\ hasTree' = TRUE
        /\ root' = b.node
        /\ resized' = b.resized
        /\ pos' = b.pos
        /\ moves' = 0

\* BarnesHutAlgorithm::Acceleration
BhAcceleration(t, p) ==
    /\ LockShared(t)
    /\ IF p = Null \/ ~hasTree \/ ~hasField
       THEN In(t, "Acceleration", p, <<>>, 0) /\ UNCHANGED cache
       ELSE \E r \in {AddAcceleration(root, <<>>, p, cache)} :
                In(t, "Acceleration", p, r.out, 0) /\ cache' = r.cache
    /\ UNCHANGED <<octVars, computed, stack, ret, hasTree, hasField, threshold, tpVars>>

\* BarnesHutAlgorithm::Force: the lock is the one Acceleration takes
BhForce(t, p) ==
    IF p = Null THEN bh[t] = Idle /\ UNCHANGED vars
    ELSE /\ LockShared(t)
         /\ IF ~hasTree \/ ~hasField
            THEN In(t, "Force", p, <<>>, 0) /\ UNCHANGED cache
            ELSE \E r \in {AddAcceleration(root, <<>>, p, cache)} :
                     In(t, "Force", p, r.out, 0) /\ cache' = r.cache
         /\ UNCHANGED <<octVars, computed, stack, ret, hasTree, hasField, threshold, tpVars>>

\* BarnesHutAlgorithm::ApproximationThreshold() const
BhGetThreshold(t) ==
    /\ LockShared(t)
    /\ In(t, "GetThreshold", Null, <<threshold>>, 0)
    /\ UNCHANGED <<octVars, mcVars, hasTree, hasField, threshold, tpVars>>

\* BarnesHutAlgorithm::ApproximationThreshold(double)
BhSetThreshold(t, x) ==
    /\ LockExclusive(t)
    /\ In(t, "SetThreshold", Null, IF x < 0 THEN <<"invalid_argument">> ELSE <<>>, 0)
    /\ threshold' = IF x < 0 THEN threshold ELSE x
    /\ UNCHANGED <<octVars, mcVars, hasTree, hasField, tpVars>>

\* BarnesHutAlgorithm::Tree(): the tree goes to the caller
BhGetTree(t) ==
    /\ LockExclusive(t)
    /\ In(t, "GetTree", Null, <<>>, Cardinality(DOMAIN cache))
    /\ cache' = ClearCache(MarkStale(cache))
    /\ NoTree
    /\ UNCHANGED <<last, computed, stack, ret, hasField, threshold, tpVars>>

\* BarnesHutAlgorithm::Tree(std::unique_ptr<Octree>): a tree, or nullptr, comes in
BhSetTree(t, given, inputs) ==
    /\ LockExclusive(t)
    /\ In(t, "SetTree", Null, <<>>, Cardinality(DOMAIN cache))
    /\ cache' = ClearCache(MarkStale(cache))
    /\ IF given THEN Installed(inputs) ELSE NoTree
    /\ UNCHANGED <<last, computed, stack, ret, hasField, threshold, tpVars>>

\* BarnesHutAlgorithm::Field(): the field goes to the caller
BhGetField(t) ==
    /\ LockExclusive(t)
    /\ In(t, "GetField", Null, <<>>, 0)
    /\ hasField' = FALSE
    /\ UNCHANGED <<octVars, mcVars, hasTree, threshold, tpVars>>

\* BarnesHutAlgorithm::Field(std::unique_ptr<IField>)
BhSetField(t, given) ==
    /\ LockExclusive(t)
    /\ In(t, "SetField", Null, <<>>, 0)
    /\ hasField' = given
    /\ UNCHANGED <<octVars, mcVars, hasTree, threshold, tpVars>>

\* BarnesHutAlgorithm::Update
BhUpdate(t) ==
    /\ LockExclusive(t)
    /\ IF ~hasTree
       THEN In(t, "Update", Null, <<>>, 0) /\ UNCHANGED <<octVars, cache>>
       ELSE \E r \in {OctreeUpdate(root, resized, pos)} :
                /\ cache' = ClearCache(MarkStale(cache))
                /\ root' = r.node
                /\ resized' = r.resized
                /\ pos' = Settle(Held(r.node), pos)
                /\ moves' = 0
                /\ In(t, "Update", Null, r.removed, Cardinality(DOMAIN cache))
                /\ UNCHANGED last
    /\ UNCHANGED <<computed, stack, ret, hasTree, hasField, threshold, tpVars>>

\* the call returns and its lock is released
BhReturn(t) ==
    /\ bh[t] # Idle
    /\ bh' = [bh EXCEPT ![t] = Idle]
    /\ mutex' = [readers |-> mutex.readers \ {t},
                 writer |-> IF mutex.writer = t THEN 0 ELSE mutex.writer]
    /\ UNCHANGED <<octVars, mcVars, hasTree, hasField, threshold, tpVars>>

\* BarnesHutAlgorithm::BarnesHutAlgorithm
BhInit ==
    /\ \E inputs \in McInputs : \E b \in {Built(inputs)} :
        /\ root = b.node
        /\ resized = b.resized
        /\ pos = b.pos
    /\ moves = 0
    /\ last = Call("new", Null, Home, TRUE, <<>>, {})
    /\ McIdle
    /\ hasTree = TRUE
    /\ hasField = TRUE
    /\ threshold \in BhThresholds
    /\ mutex = [readers |-> {}, writer |-> 0]
    /\ bh = [t \in Threads |-> Idle]
    /\ TpNone

NextBH ==
    \/ \E t \in Threads : \E p \in Particles \cup {Null} : BhAcceleration(t, p)
    \/ \E t \in Threads : \E p \in Particles \cup {Null} : BhForce(t, p)
    \/ \E t \in Threads : BhGetThreshold(t)
    \/ \E t \in Threads : \E x \in BhThresholds : BhSetThreshold(t, x)
    \/ \E t \in Threads : BhGetTree(t)
    \/ \E t \in Threads : \E inputs \in McInputs : BhSetTree(t, TRUE, inputs)
    \/ \E t \in Threads : BhSetTree(t, FALSE, <<>>)
    \/ \E t \in Threads : BhGetField(t)
    \/ \E t \in Threads : \E given \in BOOLEAN : BhSetField(t, given)
    \/ \E t \in Threads : BhUpdate(t)
    \/ \E t \in Threads : BhReturn(t)

\* threads that call one BarnesHutAlgorithm
SpecBH == BhInit /\ [][NextBH]_vars

\* ----------------------------------------------- claims on the MassCalculator

\* the nodes of the subtree of the node at path k
Below(k) == {k \o q : q \in Paths(NodeAt(root, k))}

\* C4: within one cache lifetime the computation of every node is run at most
\* once, and by the thread that emplaced the node's entry; a stored result
\* comes from exactly one run; a call that has returned visited every node
\* below its argument exactly once and holds the stored, ready result.
AtMostOnceComputation ==
    /\ \A k \in DOMAIN computed :
        /\ Len(computed[k].ran) <= 1
        /\ \A i \in DOMAIN computed[k].ran : computed[k].ran[i] = computed[k].winner
    /\ \A k \in DOMAIN cache : cache[k].is_cached => Len(Ran(k)) = 1
    /\ \A t \in Threads : ret[t] # None =>
        /\ \A k \in Below(ret[t].node) : Len(Ran(k)) = 1
        /\ cache[ret[t].node].is_cached
        /\ ret[t].result = cache[ret[t].node].result

\* two threads have returned from Calculate on the same branch node, which one
\* of them computed
TwoCallersOneComputation ==
    \E t, u \in Threads :
        /\ t # u
        /\ ret[t] # None /\ ret[u] # None
        /\ ret[t].node = ret[u].node
        /\ NodeAt(root, ret[t].node).children # <<>>
        /\ ret[t].result.mass > 0
        /\ computed[ret[t].node].ran = <<t>>

RECURSIVE SumMass(_)
SumMass(particles) ==
    IF particles = <<>> THEN 0 ELSE Mass(Head(particles)) + SumMass(Tail(particles))

RECURSIVE SumMoment(_, _)
SumMoment(particles, i) ==
    IF particles = <<>> THEN 0
    ELSE Mass(Head(particles)) * pos[Head(particles)][i] + SumMoment(Tail(particles), i)

IsAggregateOf(point_mass, node) ==
    LET particles == GetParticles(node)
    IN  /\ point_mass.mass = SumMass(particles)
        /\ \A i \in Axes :
            point_mass.displacement.n[i] * point_mass.mass
                = point_mass.displacement.d * SumMoment(particles, i)

\* C5: the result Calculate returns for a node, and the result it stores for
\* any node, has the mass of the particles of the node's subtree, and its
\* centre times that mass is the sum of mass times displacement over them.
AggregateCorrect ==
    /\ \A t \in Threads : ret[t] # None => IsAggregateOf(ret[t].result, NodeAt(root, ret[t].node))
    /\ \A k \in DOMAIN cache : cache[k].is_cached => IsAggregateOf(cache[k].result, NodeAt(root, k))

\* Calculate(root) has returned for a tree of three particles on three levels
AggregateOfDeepTree ==
    \E t \in Threads :
        /\ ret[t] # None
        /\ ret[t].node = <<>>
        /\ Len(GetParticles(root)) = 3
        /\ \E k \in Paths(root) : Len(k) = 2 /\ NodeAt(root, k).particles # <<>>
        /\ ret[t].result.mass = 6

\* ------------------------------------------- claims on the BarnesHutAlgorithm

ReadOps == {"Acceleration", "Force", "GetThreshold"}
TreeOps == {"GetTree", "SetTree", "Update"}

\* C6: two threads are inside calls of the BarnesHutAlgorithm at the same time
\* only if both calls are walks or reads of the threshold.
ReaderWriterExclusion ==
    \A t, u \in Threads :
        (t # u /\ bh[t] # Idle /\ bh[u] # Idle) =>
            (bh[t].op \in ReadOps /\ bh[u].op \in ReadOps)

\* two walks that made calls of the field are in progress at the same time
TwoWalksAtOnce ==
    \E t, u \in Threads :
        /\ t # u
        /\ bh[t].op = "Acceleration" /\ bh[t].out # <<>>
        /\ bh[u].op \in {"Acceleration", "Force"} /\ bh[u].out # <<>>

\* C7: while no thread holds the lock exclusively every cache entry is keyed by
\* a node of the installed tree and is not older than the last Tree getter,
\* Tree setter or Update; after each of those, and without a tree, the cache
\* is empty.
CacheNeverOutlivesNodes ==
    /\ mutex.writer = 0 =>
        \A k \in DOMAIN cache : hasTree /\ k \in Paths(root) /\ ~cache[k].stale
    /\ ~hasTree => cache = <<>>
    /\ \A t \in Threads : bh[t].op \in TreeOps => cache = <<>>

\* a Tree setter or an Update has just dropped entries of the tree it replaced
DroppedEntries ==
    \E t \in Threads :
        /\ bh[t].op \in {"SetTree", "Update"}
        /\ bh[t].cleared > 1
        /\ hasTree
        /\ cache = <<>>

\* how often particle q is a source by itself in the calls of the field
RECURSIVE Singly(_, _)
Singly(out, q) ==
    IF out = <<>> THEN 0
    ELSE (IF Head(out).kind = "particle" /\ Head(out).particle = q THEN 1 ELSE 0)
         + Singly(Tail(out), q)

\* how often particle q is part of an aggregate source in the calls of the field
RECURSIVE InAggregates(_, _)
InAggregates(out, q) ==
    IF out = <<>> THEN 0
    ELSE (IF Head(out).kind = "node" /\ q \in Held(NodeAt(root, Head(out).node)) THEN 1 ELSE 0)
         + InAggregates(Tail(out), q)

Walking(t) == bh[t].op = "Acceleration" /\ bh[t].subject # Null /\ hasTree /\ hasField

\* C8: with threshold 0 a walk makes no call of the field for an aggregate, and
\* one call for each particle of the tree other than the subject.
DirectSummation ==
    \A t \in Threads :
        (Walking(t) /\ threshold = 0) =>
            \A q \in Particles :
                /\ InAggregates(bh[t].out, q) = 0
                /\ Singly(bh[t].out, q) = IF q \in Held(root) /\ q # bh[t].subject THEN 1 ELSE 0

\* a walk with threshold 0 for a subject the tree holds with two others
DirectWalk ==
    \E t \in Threads :
        /\ Walking(t)
        /\ threshold = 0
        /\ bh[t].subject \in Held(root)
        /\ Cardinality(Held(root)) = 3
        /\ Len(bh[t].out) = 2

\* C9: in a walk every source particle contributes at most once, by itself or
\* inside one aggregate.
ApproximateOrDescend ==
    \A t \in Threads :
        Walking(t) =>
            \A q \in Particles : Singly(bh[t].out, q) + InAggregates(bh[t].out, q) <= 1

\* ------------------------------------------- BoundingBox and Octree::Octree
\* The geometry functions and the Octree constructor, called on their own:
\* `last` records each call with its arguments and what it returned

\* boxes the caller builds, extents set as given (BoundingBox::Extents)
GeoCentres == {<<0, 0, 0>>, <<24, -8, 16>>}
GeoExtents == {<<64, 64, 64>>, <<16, 8, 4>>}
GeoBoxes == {[centre |-> c, extents |-> e] : c \in GeoCentres, e \in GeoExtents}

\* boxes tested against a box of GeoBoxes: within it, across one of its faces,
\* beyond it, and around it
GeoOthers ==
    {[centre |-> <<x, 0, 0>>, extents |-> <<r, r, r>>] : x \in {0, 24, 80, 96}, r \in {1, 4, 128}}

\* the call `std::invalid_argument(what);` builds the exception object as a
\* temporary and destroys it at the end of the statement: nothing is thrown
Temporary(what) == {}

\* Octree::Octree, the exceptions its body throws; looseness in units of
\* 1 / LoosenessDen
OctreeThrows(cfg) ==
    (IF cfg.looseness < LoosenessDen
     THEN Temporary("Looseness cannot be less than 1.0") ELSE {})
    \cup (IF cfg.min_width < 0
          THEN Temporary("Minimum width cannot be less than 0.0") ELSE {})
    \cup (IF cfg.node_capacity <= 0
          THEN Temporary("Node capacity cannot be less than or equal to 0") ELSE {})
    \cup (IF cfg.growth_limit < 0
          THEN Temporary("Growth limit cannot be less than 0") ELSE {})
    \cup (IF cfg.shrink_limit < 0
          THEN Temporary("Shrink limit cannot be less than 0") ELSE {})

\* Octree::Octree: the members are initialised from the arguments before the
\* body runs
OctreeCtor(cfg) ==
    [raised |-> OctreeThrows(cfg) # {},
     looseness_ |-> cfg.looseness,
     min_width_ |-> cfg.min_width,
     node_capacity_ |-> cfg.node_capacity,
     growth_limit_ |-> cfg.growth_limit,
     shrink_limit_ |-> cfg.shrink_limit,
     resized_ |-> 0]

\* the configurations the caller constructs an Octree with
Configs ==
    [looseness : {LoosenessDen - 1, LoosenessDen, LoosenessNum},
     min_width : {-MinWidth, 0, MinWidth},
     node_capacity : {0, Capacity},
     growth_limit : {-1, 0, GrowthLimit},
     shrink_limit : {-1, 0, ShrinkLimit}]

GeoCall(op, box, arg, result) == [op |-> op, box |-> box, arg |-> arg, result |-> result]

GeoShrinkTo(b, q) ==
    /\ last' = GeoCall("ShrinkTo", b, q, ShrinkTo(b, q))
    /\ UNCHANGED <<root, resized, pos, moves, mcVars, bhVars, tpVars>>

GeoExpandFrom(b, q) ==
    /\ last' = GeoCall("ExpandFrom", b, q, ExpandFrom(b, q))
    /\ UNCHANGED <<root, resized, pos, moves, mcVars, bhVars, tpVars>>

\* b.ShrinkTo(q).ExpandFrom(q)
GeoShrinkExpand(b, q) ==
    /\ last' = GeoCall("ShrinkTo.ExpandFrom", b, q, ExpandFrom(ShrinkTo(b, q), q))
    /\ UNCHANGED <<root, resized, pos, moves, mcVars, bhVars, tpVars>>

\* b.ExpandFrom(q).ShrinkTo(q)
GeoExpandShrink(b, q) ==
    /\ last' = GeoCall("ExpandFrom.ShrinkTo", b, q, ShrinkTo(ExpandFrom(b, q), q))
    /\ UNCHANGED <<root, resized, pos, moves, mcVars, bhVars, tpVars>>

\* b.Contains(other, looseness)
GeoContains(b, other) ==
    /\ last' = GeoCall("Contains", b, other, Contains(b, other))
    /\ UNCHANGED <<root, resized, pos, moves, mcVars, bhVars, tpVars>>

\* points of box b on a grid of quarter extents: in both halves of b along
\* each axis, level with b's centre and level with the centres of its octants
GeoSteps == (-3)..2
GeoPoints(b) ==
    {[i \in Axes |-> b.centre[i] + (k[i] * b.extents[i]) \div 4] : k \in [Axes -> GeoSteps]}

\* b.Orthant(point) and b.ShrinkTo(b.Orthant(point)).Orthant(point)
GeoOrthant(b, point) ==
    /\ \E q \in {OrthantOf(b, point)} :
         last' = GeoCall("Orthant", b, point, <<q, OrthantOf(ShrinkTo(b, q), point)>>)
    /\ UNCHANGED <<root, resized, pos, moves, mcVars, bhVars, tpVars>>

\* Octree(bounds, looseness, min_width, node_capacity, growth_limit, shrink_limit)
GeoOctree(cfg) ==
    /\ last' = GeoCall("Octree", BoundingBox(InitCentre, InitWidth), cfg, OctreeCtor(cfg))
    /\ UNCHANGED <<root, resized, pos, moves, mcVars, bhVars, tpVars>>

NextGeo ==
    \/ \E b \in GeoBoxes : \E q \in Orthants : GeoShrinkTo(b, q)
    \/ \E b \in GeoBoxes : \E q \in Orthants : GeoExpandFrom(b, q)
    \/ \E b \in GeoBoxes : \E q \in Orthants : GeoShrinkExpand(b, q)
    \/ \E b \in GeoBoxes : \E q \in Orthants : GeoExpandShrink(b, q)
    \/ \E b \in GeoBoxes : \E other \in GeoOthers : GeoContains(b, other)
    \/ \E b \in GeoBoxes : \E point \in GeoPoints(b) : GeoOrthant(b, point)
    \/ \E cfg \in Configs : GeoOctree(cfg)

SpecGeo == OctInit /\ [][NextGeo]_vars

\* C16: shrinking a box to an orthant and expanding the result from the same
\* orthant gives back the box, centre and extents, and so does expanding first
\* and shrinking after
ShrinkExpandRoundTrip ==
    last.op \in {"ShrinkTo.ExpandFrom", "ExpandFrom.ShrinkTo"} => last.result = last.box

\* C17: ShrinkTo(q) of a box with centre c and extents e has extents e / 2 on
\* every axis and its centre at c + e / 2 on the axes where bit i of q is 0,
\* at c - e / 2 on the others
ShrinkToIsOrthant ==
    last.op = "ShrinkTo" =>
        \A i \in Axes :
            /\ 2 * last.result.extents[i] = last.box.extents[i]
            /\ 2 * last.result.centre[i]
                 = 2 * last.box.centre[i]
                   + (IF (last.arg \div (2^(i - 1))) % 2 = 0
                      THEN last.box.extents[i] ELSE -last.box.extents[i])

\* both ends of the other box lie within the box widened by the looseness
Encapsulated(b, other) ==
    \A i \in Axes :
        LET half == LoosenessNum * b.extents[i]
            lo == LoosenessDen * b.centre[i] - half
            hi == LoosenessDen * b.centre[i] + half
        IN  /\ lo <= LoosenessDen * (other.centre[i] - other.extents[i])
            /\ LoosenessDen * (other.centre[i] - other.extents[i]) <= hi
            /\ lo <= LoosenessDen * (other.centre[i] + other.extents[i])
            /\ LoosenessDen * (other.centre[i] + other.extents[i]) <= hi

\* C18: Contains(box, looseness) returns true exactly when, on every axis,
\* both the minimum and the maximum of the other box lie within the centre
\* plus or minus the extent times the looseness
ContainsIsEncapsulation ==
    last.op = "Contains" => (last.result <=> Encapsulated(last.box, last.arg))

\* a configuration outside the documented ranges
OutOfRange(cfg) ==
    \/ cfg.looseness < LoosenessDen
    \/ cfg.min_width <= 0
    \/ cfg.node_capacity = 0
    \/ cfg.growth_limit < 0
    \/ cfg.shrink_limit < 0

\* C19: constructing an Octree with looseness < 1, min_width <= 0, capacity 0
\* or a negative growth or shrink limit raises an invalid-argument error
CtorRejectsOutOfRange ==
    (last.op = "Octree" /\ OutOfRange(last.arg)) => last.result.raised

\* ------------------------------------------------- calls with a null particle

\* the process has not been stopped
Running == last.op # "crash"

\* Octree::Insert(nullptr). root_.Insert returns false for a null particle.
\* While resized_ < growth_limit_ the loop then evaluates
\* particle->Displacement() on the empty pointer, which is undefined: either
\* the process is stopped there, or the read yields some vector x and the call
\* goes on with it. At the growth limit the loop is skipped and the shrink
\* loop runs.
InsertNull(held) ==
    IF resized < GrowthLimit
    THEN \/ /\ last' = Call("crash", Null, Home, FALSE, <<>>, held)
            /\ UNCHANGED <<root, resized, pos, moves, mcVars, bhVars, tpVars>>
         \/ \E x \in Positions :
                \E r \in {OctreeInsert(root, resized, Null, (Null :> x) @@ pos)} :
                    /\ root' = r.node
                    /\ resized' = r.resized
                    /\ last' = Call("Insert", Null, x, r.ok, <<>>, held)
                    /\ UNCHANGED <<pos, moves, mcVars, bhVars, tpVars>>
    ELSE \E r \in {OctreeInsert(root, resized, Null, pos)} :
            /\ root' = r.node
            /\ resized' = r.resized
            /\ last' = Call("Insert", Null, Home, r.ok, <<>>, held)
            /\ UNCHANGED <<pos, moves, mcVars, bhVars, tpVars>>

\* Octree::Remove(nullptr)
RemoveNull(held) ==
    \E r \in {OctreeRemove(root, resized, Null, pos)} :
        /\ root' = r.node
        /\ resized' = r.resized
        /\ last' = Call("Remove", Null, Home, r.ok, <<>>, held)
        /\ UNCHANGED <<pos, moves, mcVars, bhVars, tpVars>>

NextNull ==
    LET held == Held(root)
    IN  \/ Running /\ \E p \in Particles \ held : \E x \in Positions : Insert(p, x, held)
        \/ Running /\ \E p \in Particles : Remove(p, held)
        \/ Running /\ InsertNull(held)
        \/ Running /\ RemoveNull(held)

\* Insert and Remove, with particles and with null
SpecNull == OctInit /\ [][NextNull]_vars

\* C20: Insert(null) and Remove(null) return false, raise no error and leave
\* the tree, the root bounds and the resize counter as they were
NullIsNoOp ==
    [][(last'.p = Null /\ last'.op \in {"Insert", "Remove", "crash"})
       => (/\ last'.op # "crash"
           /\ ~last'.ok
           /\ root' = root
           /\ resized' = resized)]_vars

\* Insert(null) where nothing is undefined (the counter at the growth limit)
\* and Remove(null): the same statement
NullIsNoOpDefined ==
    [][(/\ last'.p = Null /\ last'.op \in {"Insert", "Remove"}
        /\ (last'.op = "Insert" => resized >= GrowthLimit))
       => (/\ ~last'.ok
           /\ root' = root
           /\ resized' = resized)]_vars

\* Remove(null) alone
RemoveNullIsNoOp ==
    [][(last'.p = Null /\ last'.op = "Remove")
       => (~last'.ok /\ root' = root /\ resized' = resized)]_vars

\* ----------------------------------- more claims on the BarnesHutAlgorithm

\* C21: the approximation threshold of a BarnesHutAlgorithm is never negative:
\* a negative value is rejected wherever one can be supplied, by the
\* constructor as by the setter
ThresholdNeverNegative == threshold >= 0

\* the setter alone: a call with a negative value throws and the threshold is
\* the one before the call, any other call stores the value and throws nothing
SetterRejectsNegative ==
    [][\A t \in Threads :
          (bh[t] = Idle /\ bh'[t].op = "SetThreshold")
              => \/ bh'[t].out = <<"invalid_argument">> /\ threshold' = threshold
                 \/ bh'[t].out = <<>> /\ threshold' >= 0]_vars

\* C22: for a tree that holds exactly one particle p, Acceleration(p) adds no
\* contribution at all, whatever the threshold >= 0 and wherever p lies
SingleParticleNoAcceleration ==
    \A t \in Threads :
        (/\ bh[t].op = "Acceleration"
         /\ hasTree /\ hasField /\ threshold >= 0
         /\ GetParticles(root) = <<bh[t].subject>>)
            => bh[t].out = <<>>

\* C23: once the Tree getter has handed the Octree out the algorithm holds no
\* tree, and while it holds none every Acceleration and Force call returns
\* zero (no contribution) and Update returns the empty list; Acceleration and
\* Force return zero too for a null particle and for an absent field
NoTreeNoResult ==
    \A t \in Threads :
        /\ bh[t].op = "GetTree" => ~hasTree
        /\ (bh[t].op \in {"Acceleration", "Force"}
            /\ (~hasTree \/ ~hasField \/ bh[t].subject = Null)) => bh[t].out = <<>>
        /\ (bh[t].op = "Update" /\ ~hasTree) => bh[t].out = <<>>

\* a caller asks for the acceleration of a particle, the field is there and
\* the tree is with another caller
AccelerationWithoutTree ==
    \E t \in Threads :
        /\ bh[t].op = "Acceleration"
        /\ bh[t].subject # Null
        /\ hasField /\ ~hasTree
        /\ bh[t].out = <<>>

\* -------------------------------------------------------------- ThreadPool
\* Positions of a range of n elements are 0 .. n - 1; a position >= n lies
\* beyond the range.

\* what() of the exception func throws on position i
What(i) == <<"failed on 0", "failed on 1", "failed on 2", "failed on 3">>[i + 1]

\* ThreadPool::ParallelForEach, task_count = 0 stands for ThreadCount()
TaskCount(task_count) == IF task_count = 0 THEN PoolThreads ELSE task_count

\* ThreadPool::ParallelForEach, the loop over the futures: the block of each
\* task, from `begin` up to but excluding `end`
RECURSIVE BlocksFrom(_, _, _, _)
BlocksFrom(begin, per_task, tasks_remaining, futures) ==
    IF futures = 0 THEN <<>>
    ELSE IF tasks_remaining > 0
    THEN <<[begin |-> begin, end |-> begin + per_task + 1]>>
         \o BlocksFrom(begin + per_task + 1, per_task, tasks_remaining - 1, futures - 1)
    ELSE <<[begin |-> begin, end |-> begin + per_task]>>
         \o BlocksFrom(begin + per_task, per_task, tasks_remaining, futures - 1)

\* ThreadPool::ParallelForEach: task_count % item_count
TasksRemaining(item_count, task_count) == task_count % item_count

\* ThreadPool::ParallelForEach: no task for an empty range
ParallelForEach(item_count, task_count) ==
    IF item_count = 0 THEN <<>>
    ELSE BlocksFrom(0, item_count \div TaskCount(task_count),
                    TasksRemaining(item_count, TaskCount(task_count)),
                    TaskCount(task_count))

\* threads::Task: the block func is applied to, the position it has reached,
\* and the exception its std::packaged_task stored
NewTask(block) ==
    [begin |-> block.begin, end |-> block.end, next |-> block.begin,
     state |-> "queued", error |-> "none", closed_at_execute |-> FALSE]

\* except::ErrorList::operator<<: the header line before the first message
ErrorListAdd(errors, message) ==
    IF errors = <<>> THEN <<"Exception(s) thrown:", message>>
    ELSE Append(errors, message)

\* the exception ThreadPool::CheckForErrors throws for a non-empty ErrorList
Thrown == "std::runtime_error"

\* the call has handed out every task
AfterSubmit(op) == IF op = "ForEach" THEN "wait" ELSE "returned"

\* ForEach and ForEachAsync: ParallelForEach computes the blocks; an empty
\* list of futures has nothing to submit, and nothing to wait for
TpCall(op, n, task_count, fails) ==
    /\ pool.caller.pc = "idle"
    /\ pool.dtor = "none"
    /\ \E blocks \in {ParallelForEach(n, task_count)} :
        pool' = [pool EXCEPT
                   !.fails = fails,
                   !.caller = [NoCall EXCEPT
                                 !.pc = IF blocks = <<>> THEN "returned" ELSE "submit",
                                 !.op = op, !.n = n, !.blocks = blocks, !.k = 1]]
    /\ UNCHANGED <<octVars, mcVars, bhVars>>

\* ThreadPool::Submit of the next block: the task is made and pushed;
\* TaskQueue::Push drops it when the queue is closed
TpSubmit ==
    /\ pool.caller.pc = "submit"
    /\ LET k == pool.caller.k
           id == Len(pool.tasks) + 1
       IN  pool' = [pool EXCEPT
                      !.tasks = Append(@, NewTask(pool.caller.blocks[k])),
                      !.queue = IF pool.closed THEN @ ELSE Append(@, id),
                      !.caller.k = IF k = Len(pool.caller.blocks) THEN 1 ELSE k + 1,
                      !.caller.pc = IF k = Len(pool.caller.blocks)
                                    THEN AfterSubmit(pool.caller.op) ELSE "submit"]
    /\ UNCHANGED <<octVars, mcVars, bhVars>>

\* ThreadPool::WaitOnResults, defined as CheckForErrors: future.get() on the
\* next future blocks until its task is done and rethrows what it stored;
\* after the last future a non-empty ErrorList is thrown
TpGet ==
    /\ pool.caller.pc = "wait"
    /\ LET k == pool.caller.k
           task == pool.tasks[k]
           errors == IF task.error = "none" THEN pool.caller.errors
                     ELSE ErrorListAdd(pool.caller.errors, task.error)
       IN  /\ task.state = "done"
           /\ pool' = [pool EXCEPT
                         !.caller.errors = errors,
                         !.caller.k = k + 1,
                         !.caller.pc = IF k = Len(pool.tasks) THEN "returned" ELSE "wait",
                         !.caller.raised = IF k = Len(pool.tasks) /\ errors # <<>>
                                           THEN Thrown ELSE "none",
                         !.caller.message = IF k = Len(pool.tasks) THEN errors ELSE <<>>]
    /\ UNCHANGED <<octVars, mcVars, bhVars>>

\* ThreadPool::Worker, the test of its loop: TaskQueue::Closed()
WorkerClosed(w) ==
    /\ pool.worker[w].pc = "check"
    /\ pool' = [pool EXCEPT !.worker[w].pc = IF pool.closed THEN "exited" ELSE "pop"]
    /\ UNCHANGED <<octVars, mcVars, bhVars>>

\* a Pop that does not look at closed_: it takes a task whenever there is one
PopIgnoresClosed(w) ==
    /\ pool.worker[w].pc = "pop"
    /\ pool.queue # <<>> \/ pool.closed
    /\ pool' = IF pool.queue = <<>>
               THEN [pool EXCEPT !.worker[w].pc = "check"]
               ELSE [pool EXCEPT !.worker[w] = [pc |-> "execute", task |-> Head(pool.queue)],
                                 !.queue = Tail(@),
                                 !.tasks[Head(pool.queue)].state = "taken"]
    /\ UNCHANGED <<octVars, mcVars, bhVars>>

\* TaskQueue::Pop(task, true): waits until the queue is not empty or is
\* closed; returns false when closed, else takes the front task
WorkerPop(w) ==
    /\ pool.worker[w].pc = "pop"
    /\ pool.queue # <<>> \/ pool.closed
    /\ pool' = IF pool.closed
               THEN [pool EXCEPT !.worker[w].pc = "check"]
               ELSE [pool EXCEPT !.worker[w] = [pc |-> "execute", task |-> Head(pool.queue)],
                                 !.queue = Tail(@),
                                 !.tasks[Head(pool.queue)].state = "taken"]
    /\ UNCHANGED <<octVars, mcVars, bhVars>>

\* ThreadPool::Worker: task->Execute() is entered
WorkerExecute(w) ==
    /\ pool.worker[w].pc = "execute"
    /\ pool' = [pool EXCEPT !.worker[w].pc = "run",
                            !.tasks[pool.worker[w].task].state = "running",
                            !.tasks[pool.worker[w].task].closed_at_execute = pool.closed]
    /\ UNCHANGED <<octVars, mcVars, bhVars>>

\* the task's loop `for (; begin != end; ++begin) func(*begin)`, one turn.
\* An exception of func ends the task and is stored for the future. Beyond
\* the end of the range `*begin` is undefined: the process is stopped, or
\* func runs on whatever is there.
WorkerRun(w) ==
    /\ pool.worker[w].pc = "run"
    /\ LET id == pool.worker[w].task
           i == pool.tasks[id].next
       IN  IF i = pool.tasks[id].end
           THEN pool' = [pool EXCEPT !.tasks[id].state = "done",
                                     !.worker[w] = [pc |-> "check", task |-> 0]]
           ELSE IF i >= pool.caller.n
           THEN \/ pool' = [pool EXCEPT !.crashed = TRUE]
                \/ pool' = [pool EXCEPT !.calls[i] = @ + 1, !.tasks[id].next = i + 1]
           ELSE IF i \in pool.fails
           THEN pool' = [pool EXCEPT !.calls[i] = @ + 1,
                                     !.tasks[id].error = What(i),
                                     !.tasks[id].state = "done",
                                     !.worker[w] = [pc |-> "check", task |-> 0]]
           ELSE pool' = [pool EXCEPT !.calls[i] = @ + 1, !.tasks[id].next = i + 1]
    /\ UNCHANGED <<octVars, mcVars, bhVars>>

\* ThreadPool::~ThreadPool, JoinThreads: queue_.Closed(true) sets closed_ and
\* notifies every waiting worker. The last owner drops the pool, so no caller
\* is inside one of its member functions.
TpDestroy ==
    /\ pool.dtor = "none"
    /\ pool.caller.pc \in {"idle", "returned"}
    /\ pool' = [pool EXCEPT !.closed = TRUE, !.dtor = "joining"]
    /\ UNCHANGED <<octVars, mcVars, bhVars>>

\* JoinThreads: every thread has been joined, the destructor returns
TpJoined ==
    /\ pool.dtor = "joining"
    /\ \A w \in Workers : pool.worker[w].pc = "exited"
    /\ pool' = [pool EXCEPT !.dtor = "returned"]
    /\ UNCHANGED <<octVars, mcVars, bhVars>>

\* the process has not been stopped
TpRunning == ~pool.crashed

\* the ranges, task counts and failing positions the caller passes
TpOps == {"ForEach", "ForEachAsync"}

NextTP ==
    \/ TpRunning /\ \E op \in TpOps : \E n \in 0..MaxItems : \E t \in 0..MaxTasks :
                        \E fails \in SUBSET (0..(n - 1)) : TpCall(op, n, t, fails)
    \/ TpRunning /\ TpSubmit
    \/ TpRunning /\ TpGet
    \/ TpRunning /\ \E w \in Workers : WorkerClosed(w)
    \/ TpRunning /\ \E w \in Workers : WorkerPop(w)
    \/ TpRunning /\ \E w \in Workers : WorkerExecute(w)
    \/ TpRunning /\ \E w \in Workers : WorkerRun(w)
    \/ TpRunning /\ TpDestroy
    \/ TpRunning /\ TpJoined

\* one ThreadPool, its workers, one parallel for-each and the destructor
SpecTP == OctInit /\ [][NextTP]_vars

\* the workers are scheduled fairly
SpecTPFair ==
    /\ SpecTP
    /\ \A w \in Workers :
         WF_vars(TpRunning /\ (WorkerClosed(w) \/ WorkerPop(w) \/ WorkerExecute(w) \/ WorkerRun(w)))
    /\ WF_vars(TpRunning /\ TpJoined)

\* ------------------------------------------------- claims on the ThreadPool

\* C24: ForEach(range, f, task_count) with an f that does not fail invokes f
\* on no position beyond the range and, when it returns, has invoked f exactly
\* once on each element, for every range length and every task count
ForEachCoversRange ==
    (pool.caller.op = "ForEach" /\ pool.fails = {}) =>
        /\ ~pool.crashed
        /\ \A i \in DOMAIN pool.calls : i >= pool.caller.n => pool.calls[i] = 0
        /\ pool.caller.pc = "returned" =>
               \A i \in 0..(pool.caller.n - 1) : pool.calls[i] = 1

\* the same where nothing is undefined: no block reaches beyond the range
ForEachCoversRangeDefined ==
    (/\ pool.caller.op = "ForEach" /\ pool.fails = {}
     /\ \A k \in DOMAIN pool.caller.blocks : pool.caller.blocks[k].end <= pool.caller.n
     /\ pool.caller.pc = "returned")
        => \A i \in 0..(pool.caller.n - 1) : pool.calls[i] = 1

\* the tasks of the call that stored an exception
FailedTasks == {k \in DOMAIN pool.tasks : pool.tasks[k].error # "none"}

\* the blocking ForEach has returned or thrown: every task is done, one error
\* of the given kind was thrown if a task failed and none otherwise, and its
\* message holds the message of every failed task
AggregatedAs(kind) ==
    (pool.caller.op = "ForEach" /\ pool.caller.pc = "returned") =>
        /\ \A k \in DOMAIN pool.tasks : pool.tasks[k].state = "done"
        /\ pool.caller.raised = IF FailedTasks = {} THEN "none" ELSE kind
        /\ \A k \in FailedTasks : pool.tasks[k].error \in Range(pool.caller.message)

\* C25: when tasks of a blocking ForEach fail, ForEach waits for every task
\* and then raises one error, of the AsyncError kind, whose message contains
\* the message of every failed task; when none fails it raises nothing
AggregatedAsyncError == AggregatedAs("gravity::except::AsyncError")

\* the same with the kind the code throws
AggregatedRuntimeError == AggregatedAs("std::runtime_error")

\* the tasks a worker holds: taken off the queue, or running
InFlight == {k \in DOMAIN pool.tasks : pool.tasks[k].state \in {"taken", "running"}}

\* once the pool is being destroyed the queue is closed and stays closed, and
\* the destructor returns only when every worker has left its loop, with no
\* task in a worker's hands
ClosedAndJoined ==
    /\ pool.dtor # "none" => pool.closed
    /\ pool.dtor = "returned" =>
         /\ \A w \in Workers : pool.worker[w].pc = "exited"
         /\ InFlight = {}

\* no task enters Execute after the queue was closed
NoExecuteAfterClose ==
    \A k \in DOMAIN pool.tasks : ~pool.tasks[k].closed_at_execute

\* no task is taken off the queue after the queue was closed, and a task a
\* worker holds is not dropped: it runs until it is done
NoPopAfterClose ==
    [][pool.closed =>
          \A k \in DOMAIN pool.tasks :
              /\ pool'.tasks[k].state = "taken" => pool.tasks[k].state = "taken"
              /\ (k \in InFlight /\ ~pool'.crashed)
                    => pool'.tasks[k].state \in {"taken", "running", "done"}]_vars

\* the destructor, once it has closed the queue, returns (unless a task has
\* stopped the process)
DestructorReturns ==
    (pool.dtor = "joining") ~> (pool.dtor = "returned" \/ pool.crashed)

\* C29: when the pool is destroyed the queue is closed, every worker leaves
\* its loop, a task that is executing runs to completion before its worker is
\* joined, no task is taken off the queue after the queue was closed (a task
\* taken before may enter Execute after), and the destructor returns
DropTerminatesTaken ==
    /\ []ClosedAndJoined
    /\ NoPopAfterClose
    /\ DestructorReturns

\* the same with the clause as stated: no task enters Execute after the queue
\* was closed
DropTerminatesCleanly ==
    /\ []ClosedAndJoined
    /\ []NoExecuteAfterClose
    /\ NoPopAfterClose
    /\ DestructorReturns

\* the destructor has returned, a task that a worker held when the queue was
\* closed is done, and a task still queued was abandoned
DroppedWhileBusy ==
    /\ pool.dtor = "returned"
    /\ pool.queue # <<>>
    /\ \E k \in DOMAIN pool.tasks :
          pool.tasks[k].state = "done" /\ pool.tasks[k].closed_at_execute

\* ------------------------------------------------------ calls on one Node

\* where the caller places particles: two in one octant of the root, one in
\* another octant, one at the root's centre
PosC == <<-24, 24, 24>>
NodePositions == {PosA, PosB, PosC, PosD}

\* the points the caller grows the node towards
GrowPoints == {PosF, PosC}

\* the call, its arguments, what it returned, and the node before and after
NodeCall(op, p, at, ok, before, after) ==
    [op |-> op, p |-> p, at |-> at, ok |-> ok, before |-> before, after |-> after]

\* Node::Insert(particle, looseness, min_width, capacity) on the node
NdInsert(p, x) ==
    \E ps \in {[pos EXCEPT ![p] = x]} : \E r \in {NodeInsert(root, p, ps)} :
        /\ root' = r.node
        /\ pos' = Settle(Held(r.node), ps)
        /\ last' = NodeCall("Insert", p, x, r.ok, root, r.node)
        /\ UNCHANGED <<resized, moves, mcVars, bhVars, tpVars>>

\* Node::Remove(particle, capacity) on the node
NdRemove(p) ==
    \E r \in {NodeRemove(root, p, pos)} :
        /\ root' = r.node
        /\ pos' = Settle(Held(r.node), pos)
        /\ last' = NodeCall("Remove", p, pos[p], r.ok, root, r.node)
        /\ UNCHANGED <<resized, moves, mcVars, bhVars, tpVars>>

\* Node::Shrink() on the node
NdShrink ==
    \E r \in {Shrink(root)} :
        /\ root' = r.node
        /\ last' = NodeCall("Shrink", Null, Home, r.ok, root, r.node)
        /\ UNCHANGED <<resized, pos, moves, mcVars, bhVars, tpVars>>

\* Node::Grow(point, looseness, min_width, capacity) on the node; as the
\* Octree does, the caller counts the doublings and stops at the limit
NdGrow(point) ==
    /\ resized < GrowthLimit
    /\ \E g \in {Grow(root, point, pos)} :
        /\ root' = g
        /\ resized' = resized + 1
        /\ last' = NodeCall("Grow", Null, point, TRUE, root, g)
        /\ UNCHANGED <<pos, moves, mcVars, bhVars, tpVars>>

NextNode ==
    \/ \E p \in Particles \ Held(root) : \E x \in NodePositions : NdInsert(p, x)
    \/ \E p \in Particles : NdRemove(p)
    \/ NdShrink
    \/ \E point \in GrowPoints : NdGrow(point)

\* Insert, Remove, Shrink and Grow called on one Node
SpecNode == OctInit /\ [][NextNode]_vars

\* ------------------------------------------------------------- collisions

\* BoundingBox::Intersects(other, looseness), looseness = num/den: the extents
\* of this box are scaled only when looseness > 1; touching boxes intersect
Intersects(b, other, num, den) ==
    \A i \in Axes :
        LET half_width == IF num > den THEN num * b.extents[i] ELSE den * b.extents[i]
            other_min == den * (other.centre[i] - other.extents[i])
            other_max == den * (other.centre[i] + other.extents[i])
            this_min == den * b.centre[i] - half_width
            this_max == den * b.centre[i] + half_width
        IN  ~(this_min > other_max \/ this_max < other_min)

\* Octree::IsColliding(bounds, node): false when the node's loose bounds miss
\* the box, true at the first particle or child that collides, and true when
\* the loops find none
RECURSIVE IsColliding(_, _, _)
IsColliding(bounds, node, ps) ==
    IF ~Intersects(node.bounds, bounds, LoosenessNum, LoosenessDen) THEN FALSE
    ELSE IF \E i \in DOMAIN node.particles :
                Intersects(PBounds(node.particles[i], ps), bounds, 1, 1) THEN TRUE
    ELSE IF \E j \in DOMAIN node.children :
                IsColliding(bounds, node.children[j], ps) THEN TRUE
    ELSE TRUE

\* Octree::GetColliding(bounds, node, colliding): the particles of the node
\* that intersect the box are appended, then for each child the function is
\* called on `node` again, not on the child: with a child the call repeats
\* itself without end and never returns
GetColliding(bounds, node, ps) ==
    IF ~Intersects(node.bounds, bounds, LoosenessNum, LoosenessDen)
    THEN [diverges |-> FALSE, colliding |-> <<>>]
    ELSE [diverges |-> node.children # <<>>,
          colliding |-> SelectSeq(node.particles,
                           LAMBDA q : Intersects(PBounds(q, ps), bounds, 1, 1))]

\* the boxes a caller asks about: around a particle, beside one, touching
\* one, in empty space inside the root, far outside, and around everything
ColCentres == {PosA, PosB, PosD, PosE, PosF, PosZ, <<27, 24, 24>>, <<40, 40, 40>>}
ColExtents == {<<2, 2, 2>>, <<256, 256, 256>>}
ColBoxes == {[centre |-> c, extents |-> e] : c \in ColCentres, e \in ColExtents}

\* Octree::IsColliding(bounds)
OctIsColliding(box) ==
    /\ last' = GeoCall("IsColliding", box, Held(root), IsColliding(box, root, pos))
    /\ UNCHANGED <<root, resized, pos, moves, mcVars, bhVars, tpVars>>

\* Octree::Colliding(bounds)
OctColliding(box) ==
    /\ last' = GeoCall("Colliding", box, Held(root), GetColliding(box, root, pos))
    /\ UNCHANGED <<root, resized, pos, moves, mcVars, bhVars, tpVars>>

NextCol ==
    \/ \E box \in ColBoxes : OctIsColliding(box)
    \/ \E box \in ColBoxes : OctColliding(box)

\* collision queries on the trees a caller has built
SpecCol == McInit /\ [][NextCol]_vars

\* --------------------------------------- more claims on the MassCalculator

\* path k lies strictly below path j
StrictlyBelow(k, j) == Len(k) > Len(j) /\ SubSeq(k, 1, Len(j)) = j

\* a thread inside WaitForResult
Waiting(t) == At(t, "wait") \/ At(t, "asleep")

\* a thread waits only on an entry that exists, on a node strictly below
\* every node it is itself computing, and while the entry is not yet cached
\* it is another thread that computes it
WaitsOnlyBelow ==
    \A t \in Threads : Waiting(t) =>
        /\ Top(t).node \in DOMAIN cache
        /\ ~cache[Top(t).node].is_cached => computed[Top(t).node].winner # t
        /\ \A i \in 1..(Len(stack[t]) - 1) : StrictlyBelow(Top(t).node, stack[t][i].node)

PointIn(b, point) ==
    \A i \in Axes : /\ point[i] <= b.centre[i] + b.extents[i]
                    /\ point[i] >= b.centre[i] - b.extents[i]

\* point lies in the outer half of b along every axis: at or beyond the
\* centre of the octant it falls in, on the side away from b's centre
OuterHalf(b, point) ==
    \A i \in Axes : \/ 2 * point[i] >= 2 * b.centre[i] + b.extents[i]
                    \/ 2 * point[i] < 2 * b.centre[i] - b.extents[i]

\* C30 as stated: for every box B and every point p in B, B.Orthant(p) is
\* the orthant of p in B.ShrinkTo(B.Orthant(p))
OrthantStableUnderShrink ==
    (last.op = "Orthant" /\ PointIn(last.box, last.arg)) =>
        last.result[1] = last.result[2]

\* C30: for every box B and every point p in B, the orthant of p in
\* B.ShrinkTo(B.Orthant(p)) is B.Orthant(p) exactly when p lies in the outer
\* half of B along every axis
OrthantStableInOuterHalf ==
    (last.op = "Orthant" /\ PointIn(last.box, last.arg)) =>
        (last.result[1] = last.result[2] <=> OuterHalf(last.box, last.arg))

\* a point of B at the centre of its octant along one axis and beyond it
\* along the others, with the same orthant in B and in the octant
OrthantAtOctantCentre ==
    /\ last.op = "Orthant"
    /\ PointIn(last.box, last.arg)
    /\ \E i \in Axes : 2 * last.arg[i] = 2 * last.box.centre[i] + last.box.extents[i]
    /\ last.result[1] = last.result[2]

\* ------------------------------------------------------ claims on collisions

\* the particles of the tree whose tight bounds intersect the box
Hits(box) == {q \in Held(root) : Intersects(PBounds(q, pos), box, 1, 1)}

\* C27: IsColliding(box) is true if and only if some particle stored in the
\* tree has tight bounds that intersect the box
IsCollidingIffHit ==
    last.op = "IsColliding" => (last.result <=> Hits(last.box) # {})

\* IsColliding(box) is true whenever a stored particle intersects the box
IsCollidingIfHit ==
    last.op = "IsColliding" => (Hits(last.box) # {} => last.result)

\* C28: Colliding(box) returns, on a leaf and on a branched tree, with
\* exactly the stored particles whose tight bounds intersect the box, each
\* once
CollidingIsExact ==
    last.op = "Colliding" =>
        /\ ~last.result.diverges
        /\ Range(last.result.colliding) = Hits(last.box)
        /\ Len(last.result.colliding) = Cardinality(Hits(last.box))

\* the same on a tree whose root is a leaf
CollidingIsExactOnLeaf ==
    (last.op = "Colliding" /\ root.children = <<>>) =>
        /\ ~last.result.diverges
        /\ Range(last.result.colliding) = Hits(last.box)
        /\ Len(last.result.colliding) = Cardinality(Hits(last.box))

\* ------------------------------------------ the walk of the BarnesHutAlgorithm

\* the calls of the field in out that satisfy Test
Calls(out, Test(_)) == Cardinality({i \in DOMAIN out : Test(out[i])})

\* the node on whose particle list q stands
HoldsDirectly(k, q) == \E i \in DOMAIN NodeAt(root, k).particles : NodeAt(root, k).particles[i] = q

ChildrenAreOctants ==
    \A k \in Paths(root) :
        LET node == NodeAt(root, k)
        IN  /\ Len(node.children) \in {0, 2^Dimensions}
            /\ \A i \in DOMAIN node.children :
                  node.children[i].bounds = ShrinkTo(node.bounds, i - 1)

\* every node has no children or exactly 2^D children
ChildrenAreNoneOrAll ==
    \A k \in Paths(root) : Len(NodeAt(root, k).children) \in {0, 2^Dimensions}

\* a root that Grow has put above a former root with children
GrownAboveBranched ==
    /\ resized > 0
    /\ \E i \in DOMAIN root.children : root.children[i].children # <<>>

\* ------------------------------------------------------- claims on the Node

\* the children of a node that have a particle somewhere in their subtree
ChildrenWithParticles(node) ==
    {i \in DOMAIN node.children : GetParticles(node.children[i]) # <<>>}

\* C33: Shrink returns true exactly when the node is a non-leaf without
\* direct particles and exactly one of its children has a particle in its
\* subtree; then the node's bounds, particles and children are those of
\* that child and the reachable particles are the same; when it returns
\* false the node is unchanged
ShrinkCollapsesToOnlyChild ==
    last.op = "Shrink" =>
        LET before == last.before
            only == ChildrenWithParticles(before)
        IN  /\ last.ok <=> (/\ before.children # <<>>
                            /\ before.particles = <<>>
                            /\ Cardinality(only) = 1)
            /\ last.ok => (/\ \E i \in only : last.after = before.children[i]
                           /\ Range(GetParticles(last.after)) = Range(GetParticles(before)))
            /\ ~last.ok => last.after = before
            /\ root = last.after

\* a Shrink that returned true on a node that holds particles below it
ShrunkToChild ==
    /\ last.op = "Shrink"
    /\ last.ok
    /\ GetParticles(last.before) # <<>>
    /\ last.after # last.before

Unmoved(p) == moves = 0 \/ last.op # "Move" \/ last.p # p

\* C35: in every state reachable by Insert, Remove and Update calls, for
\* every particle the tree holds that has not moved since the last Update
\* or its insertion, Remove(p) returns true: the particle is on the path of
\* nearest children that Remove follows from the root
StoredIsRemovable ==
    \A p \in Held(root) : Unmoved(p) => NodeRemove(root, p, pos).ok

\* the last call was an Insert that returned true on a leaf above min width
\* that held as many particles as its capacity, and the displacements of
\* those particles and of the new one lie in pairwise distinct orthants
FilledDistinctOrthants ==
    /\ last.op = "Insert"
    /\ last.ok
    /\ last.before.children = <<>>
    /\ Len(last.before.particles) = Capacity
    /\ ~IsMinWidth(last.before)
    /\ \A p, q \in Held(root) :
          p # q => OrthantOf(last.before.bounds, pos[p]) # OrthantOf(last.before.bounds, pos[q])

\* the node is a non-leaf whose children are leaves that hold the particles
BranchedOnce ==
    /\ root.children # <<>>
    /\ root.particles = <<>>
    /\ \A i \in DOMAIN root.children : root.children[i].children = <<>>
    /\ \A p \in Held(last.before) \cup {last.p} :
          p \in Range(root.children[OrthantOf(root.bounds, pos[p]) + 1].particles)

\* each of the particles stands in a leaf child of the node
ParticlesInChildren ==
    /\ root.children # <<>>
    /\ root.particles = <<>>

\* C36: with capacity c, the Insert that brings a leaf above min width to
\* c + 1 particles in pairwise distinct orthants makes the node branch once,
\* into leaves that hold the particles, and the removal of any one of them
\* then merges the node back into a leaf with the c that remain
BranchThenMerge ==
    /\ [](FilledDistinctOrthants => BranchedOnce)
    /\ [][(FilledDistinctOrthants /\ last'.op = "Remove" /\ last'.p \in Held(root))
            => (/\ last'.ok
                /\ root'.children = <<>>
                /\ Len(root'.particles) = Capacity
                /\ Range(root'.particles) = Held(root) \ {last'.p})]_vars

\* the same for particles that the children Branch made loosely contain
BranchThenMergeInChildren ==
    /\ []((FilledDistinctOrthants /\ ParticlesInChildren) => BranchedOnce)
    /\ [][(FilledDistinctOrthants /\ ParticlesInChildren
             /\ last'.op = "Remove" /\ last'.p \in Held(root))
            => (/\ last'.ok
                /\ root'.children = <<>>
                /\ Len(root'.particles) = Capacity
                /\ Range(root'.particles) = Held(root) \ {last'.p})]_vars

\* ---------------------------------------------------------------------------
\* the locks of the BarnesHutAlgorithm: each call is split at the points where
\* it asks for mutex_ and for the cache_mutex_ of its MassCalculator
\* ---------------------------------------------------------------------------

\* the calls that take mutex_ shared, the others take it exclusively
SharedCalls == {"Acceleration", "Force", "GetThreshold"}
ExclusiveCalls == {"SetThreshold", "GetTree", "SetTree", "GetField", "SetField", "Update"}
\* the calls that walk the tree and so read the cache, and those that clear it
WalkCalls == {"Acceleration", "Force"}
ClearCalls == {"GetTree", "SetTree", "Update"}

\* the threads that call the one BarnesHutAlgorithm
LockThreads == 1..NumLockThreads

\* where thread t is in its call
Pc(t) == IF bh[t] = Idle THEN "idle" ELSE bh[t].pc
HoldsMutex(t) == t \in mutex.readers \/ mutex.writer = t
HoldsCache(t) == Pc(t) \in {"reading", "clearing"}

\* thread t enters one of the public functions
LkCall(t, op) ==
    /\ bh[t] = Idle
    /\ bh' = [bh EXCEPT ![t] = [op |-> op, pc |-> "called", held |-> 0, uses |-> 0]]
    /\ UNCHANGED <<octVars, mcVars, hasTree, hasField, threshold, mutex, tpVars>>

\* a Force that holds mutex_ over its call of Acceleration
LkForceLocked(t) ==
    /\ Pc(t) = "called"
    /\ bh[t].op = "Force"
    /\ LockShared(t)
    /\ bh' = [bh EXCEPT ![t].pc = "entered", ![t].held = @ + 1]
    /\ UNCHANGED <<octVars, mcVars, hasTree, hasField, threshold, tpVars>>

\* BarnesHutAlgorithm::Force: checks the particle and calls Acceleration
LkForce(t) ==
    /\ Pc(t) = "called"
    /\ bh[t].op = "Force"
    /\ bh' = [bh EXCEPT ![t].pc = "entered"]
    /\ UNCHANGED <<octVars, mcVars, hasTree, hasField, threshold, mutex, tpVars>>

\* the std::shared_lock or std::lock_guard at the top of the function
LkLock(t) ==
    /\ \/ Pc(t) = "called" /\ bh[t].op # "Force"
       \/ Pc(t) = "entered"
    /\ IF bh[t].op \in SharedCalls THEN LockShared(t) ELSE LockExclusive(t)
    /\ bh' = [bh EXCEPT ![t].pc = "locked", ![t].held = @ + 1]
    /\ UNCHANGED <<octVars, mcVars, hasTree, hasField, threshold, tpVars>>

\* MassCalculator::Calculate takes cache_mutex_ shared, ClearCache exclusively
LkCache(t) ==
    /\ \/ /\ bh[t].op \in WalkCalls
          /\ Pc(t) \in {"locked", "unlocked"}
          /\ bh[t].uses < MaxCacheUses
          /\ \A u \in LockThreads : Pc(u) # "clearing"
          /\ bh' = [bh EXCEPT ![t].pc = "reading", ![t].uses = @ + 1]
       \/ /\ bh[t].op \in ClearCalls
          /\ Pc(t) = "locked"
          /\ \A u \in LockThreads : ~HoldsCache(u)
          /\ bh' = [bh EXCEPT ![t].pc = "clearing", ![t].uses = @ + 1]
    /\ UNCHANGED <<octVars, mcVars, hasTree, hasField, threshold, mutex, tpVars>>

\* the lock on cache_mutex_ goes out of scope
LkCacheUnlock(t) ==
    /\ HoldsCache(t)
    /\ bh' = [bh EXCEPT ![t].pc = "unlocked"]
    /\ UNCHANGED <<octVars, mcVars, hasTree, hasField, threshold, mutex, tpVars>>

\* the function returns and the lock on mutex_ goes out of scope
LkReturn(t) ==
    /\ \/ Pc(t) = "locked" /\ bh[t].op \notin ClearCalls
       \/ Pc(t) = "unlocked"
    /\ BhReturn(t)

\* the steps of thread t that wait for nothing
LkStep(t) == LkForce(t) \/ LkCacheUnlock(t) \/ LkReturn(t)

NextLock ==
    \E t \in LockThreads :
        \/ \E op \in SharedCalls \cup ExclusiveCalls : LkCall(t, op)
        \/ LkForce(t)
        \/ LkLock(t)
        \/ LkCache(t)
        \/ LkCacheUnlock(t)
        \/ LkReturn(t)

\* BarnesHutAlgorithm::BarnesHutAlgorithm: nobody holds a lock
LkInit ==
    /\ root = Leaf(BoundingBox(InitCentre, InitWidth))
    /\ resized = 0
    /\ pos = [p \in Particles |-> Home]
    /\ moves = 0
    /\ last = Call("new", Null, Home, TRUE, <<>>, {})
    /\ McIdle
    /\ TpNone
    /\ hasTree = FALSE
    /\ hasField = FALSE
    /\ threshold = DefaultApproximationThreshold
    /\ mutex = [readers |-> {}, writer |-> 0]
    /\ bh = [t \in LockThreads |-> Idle]

SpecLock == LkInit /\ [][NextLock]_vars

\* every thread keeps running, and a thread that can take a lock again and
\* again does take it
SpecLockFair ==
    /\ SpecLock
    /\ \A t \in LockThreads :
        /\ WF_vars(LkStep(t))
        /\ SF_vars(LkLock(t))
        /\ SF_vars(LkCache(t))

\* ---------------------------------------------------------------------------
\* claims on the locks of the BarnesHutAlgorithm
\* ---------------------------------------------------------------------------

\* a thread takes mutex_ at most once in a call
NoRelock == \A t \in LockThreads : bh[t] # Idle => bh[t].held <= 1

\* cache_mutex_ is held only under mutex_, and a thread that waits for mutex_
\* holds neither lock
CacheUnderMutex ==
    \A t \in LockThreads :
        /\ HoldsCache(t) => HoldsMutex(t)
        /\ Pc(t) \in {"called", "entered"} => ~HoldsMutex(t) /\ ~HoldsCache(t)

\* no state is reached in which a call is in progress and no thread can move
NoDeadlock ==
    (\E t \in LockThreads : bh[t] # Idle)
        => \E t \in LockThreads : ENABLED (LkStep(t) \/ LkLock(t) \/ LkCache(t))

\* C37: no thread takes the lock of the algorithm while it holds it (Force
\* holds nothing when it calls Acceleration), the cache lock of the
\* MassCalculator is only taken under the lock of the algorithm and never the
\* other way round, and every call that was entered returns
LockDiscipline ==
    /\ [](NoRelock /\ CacheUnderMutex)
    /\ \A t \in LockThreads : (bh[t] # Idle) ~> (bh[t] = Idle)

\* the same discipline, where the calls that return are those that take the
\* lock of the algorithm shared and those that have the lock: the threads
\* never come to a standstill, and a call that asks for the lock exclusively
\* returns once it got it
LockDisciplineOfHolders ==
    /\ [](NoRelock /\ CacheUnderMutex /\ NoDeadlock)
    /\ \A t \in LockThreads :
        /\ (bh[t] # Idle /\ bh[t].op \in SharedCalls) ~> (bh[t] = Idle)
        /\ HoldsMutex(t) ~> (bh[t] = Idle)

\* two calls of Force overlap under the shared lock, one of them reads the
\* cache, while an Update waits for the lock
ForcesOverlapWhileUpdateWaits ==
    \E t, u, w \in LockThreads :
        /\ t # u
        /\ Pc(t) = "reading"
        /\ bh[t].op = "Force"
        /\ bh[t].held = 1
        /\ Pc(u) = "locked"
        /\ bh[u].op = "Force"
        /\ {t, u} \subseteq mutex.readers
        /\ Pc(w) = "called"
        /\ bh[w].op = "Update"

\* ---------------------------------------------------------------------------
\* the TaskQueue on its own: producers push, the workers of a ThreadPool poll,
\* and the owner closes and reopens it
\* ---------------------------------------------------------------------------

Producers == 1..NumProducers
Pushes == 1..MaxPushes

\* TaskQueue::TaskQueue: open and empty. pushed and handed are the tasks in
\* the order in which Push accepted them and Pop handed them out, runs counts
\* the calls of Execute on each task
NewQueue ==
    [queue |-> <<>>,
     closed |-> FALSE,
     next |-> 1,
     by |-> [id \in Pushes |-> 0],
     pushed |-> <<>>,
     dropped |-> {},
     handed |-> <<>>,
     runs |-> [id \in Pushes |-> 0],
     worker |-> [w \in Workers |-> [pc |-> "check", task |-> 0, ok |-> FALSE]]]

TqInit ==
    /\ root = Leaf(BoundingBox(InitCentre, InitWidth))
    /\ resized = 0
    /\ pos = [p \in Particles |-> Home]
    /\ moves = 0
    /\ last = Call("new", Null, Home, TRUE, <<>>, {})
    /\ McIdle
    /\ BhNone
    /\ pool = NewQueue

\* TaskQueue::Push by producer p: dropped when closed_, else put at the back
TqPush(p) ==
    /\ pool.next <= MaxPushes
    /\ pool' = IF pool.closed
               THEN [pool EXCEPT !.next = @ + 1,
                                 !.by[pool.next] = p,
                                 !.dropped = @ \cup {pool.next}]
               ELSE [pool EXCEPT !.next = @ + 1,
                                 !.by[pool.next] = p,
                                 !.queue = Append(@, pool.next),
                                 !.pushed = Append(@, pool.next)]
    /\ UNCHANGED <<octVars, mcVars, bhVars>>

\* TaskQueue::Closed(bool)
TqClosed(closed) ==
    /\ pool.closed # closed
    /\ pool' = [pool EXCEPT !.closed = closed]
    /\ UNCHANGED <<octVars, mcVars, bhVars>>

\* ThreadPool::Worker: `while (!queue_.Closed())`
TqWorkerClosed(w) ==
    /\ pool.worker[w].pc = "check"
    /\ pool' = [pool EXCEPT !.worker[w].pc = IF pool.closed THEN "exited" ELSE "pop"]
    /\ UNCHANGED <<octVars, mcVars, bhVars>>

\* what Pop does once it holds the mutex and has nothing to wait for
Popped ==
    IF pool.queue = <<>> \/ pool.closed
    THEN [queue |-> pool.queue, handed |-> pool.handed, task |-> 0, ok |-> FALSE]
    ELSE [queue |-> Tail(pool.queue), handed |-> Append(pool.handed, Head(pool.queue)),
          task |-> Head(pool.queue), ok |-> TRUE]

\* a Pop that reads the front of the queue and leaves it there
TqPopKeepsFront(w) ==
    /\ pool.worker[w].pc = "pop"
    /\ pool.queue # <<>> \/ pool.closed
    /\ pool' = [pool EXCEPT !.worker[w] = [pc |-> IF Popped.ok THEN "execute" ELSE "check",
                                           task |-> Popped.task, ok |-> Popped.ok],
                            !.handed = Popped.handed]
    /\ UNCHANGED <<octVars, mcVars, bhVars>>

\* TaskQueue::Pop(task, true): waits until the queue is not empty or is closed
TqPop(w) ==
    /\ pool.worker[w].pc = "pop"
    /\ pool.queue # <<>> \/ pool.closed
    /\ pool' = [pool EXCEPT !.worker[w] = [pc |-> IF Popped.ok THEN "execute" ELSE "check",
                                           task |-> Popped.task, ok |-> Popped.ok],
                            !.queue = Popped.queue,
                            !.handed = Popped.handed]
    /\ UNCHANGED <<octVars, mcVars, bhVars>>

\* TaskQueue::Pop(task, false): does not wait
TqTryPop(w) ==
    /\ pool.worker[w].pc = "pop"
    /\ pool' = [pool EXCEPT !.worker[w] = [pc |-> IF Popped.ok THEN "execute" ELSE "check",
                                           task |-> Popped.task, ok |-> Popped.ok],
                            !.queue = Popped.queue,
                            !.handed = Popped.handed]
    /\ UNCHANGED <<octVars, mcVars, bhVars>>

\* ThreadPool::Worker: `task->Execute(); task = nullptr;`
TqExecute(w) ==
    /\ pool.worker[w].pc = "execute"
    /\ pool' = [pool EXCEPT !.runs[pool.worker[w].task] = @ + 1,
                            !.worker[w] = [pc |-> "check", task |-> 0, ok |-> FALSE]]
    /\ UNCHANGED <<octVars, mcVars, bhVars>>

NextTQ ==
    \/ \E p \in Producers : TqPush(p)
    \/ \E closed \in BOOLEAN : TqClosed(closed)
    \/ \E w \in Workers : TqWorkerClosed(w)
    \/ \E w \in Workers : TqPop(w)
    \/ \E w \in Workers : TqTryPop(w)
    \/ \E w \in Workers : TqExecute(w)

SpecTQ == TqInit /\ [][NextTQ]_vars

\* the workers are scheduled fairly
SpecTQFair ==
    /\ SpecTQ
    /\ \A w \in Workers : WF_vars(TqWorkerClosed(w) \/ TqPop(w) \/ TqExecute(w))

\* ---------------------------------------------------------------------------
\* claims on the TaskQueue
\* ---------------------------------------------------------------------------

\* a task goes to at most one Pop, in the order of the pushes, and a dropped
\* task goes to none
HandedInOrder ==
    /\ Len(pool.handed) <= Len(pool.pushed)
    /\ pool.handed = SubSeq(pool.pushed, 1, Len(pool.handed))
    /\ pool.queue = SubSeq(pool.pushed, Len(pool.handed) + 1, Len(pool.pushed))
    /\ \A i, j \in 1..Len(pool.pushed) : i < j => pool.pushed[i] < pool.pushed[j]
    /\ Range(pool.pushed) \cap pool.dropped = {}

\* a Pop that returned true wrote a task that was pushed, one that returned
\* false wrote none; no task is executed twice, and none that was not handed out
PopWroteTask ==
    /\ \A w \in Workers :
        /\ pool.worker[w].ok <=> pool.worker[w].pc = "execute"
        /\ pool.worker[w].ok <=> pool.worker[w].task # 0
        /\ pool.worker[w].ok => pool.worker[w].task \in Range(pool.handed)
    /\ \A id \in Pushes :
        /\ pool.runs[id] <= 1
        /\ pool.runs[id] = 1 => id \in Range(pool.handed)

\* on a closed queue a Pop does not wait
ClosedPopDoesNotWait ==
    \A w \in Workers : pool.closed /\ pool.worker[w].pc = "pop" => ENABLED TqPop(w)

\* a Push on a closed queue changes nothing in the queue, a Pop on a closed
\* queue returns false and takes nothing
ClosedQueueStep ==
    pool.closed /\ pool'.closed =>
        /\ pool'.queue = pool.queue
        /\ pool'.handed = pool.handed
        /\ pool'.next # pool.next => pool'.dropped = pool.dropped \cup {pool.next}
        /\ \A w \in Workers : pool.worker[w].pc = "pop" /\ pool'.worker[w].pc # "pop"
                                 => ~pool'.worker[w].ok /\ pool'.worker[w].pc = "check"

\* C38: every task pushed on an open TaskQueue is handed to at most one Pop,
\* in the order of the pushes; a Pop returns true only with a task written; a
\* task that is in the queue while a worker polls is executed, once, unless
\* the queue is closed; a Push on a closed queue is dropped and a Pop on a
\* closed queue returns false without waiting
TaskDelivery ==
    /\ [](HandedInOrder /\ PopWroteTask /\ ClosedPopDoesNotWait)
    /\ [][ClosedQueueStep]_vars
    /\ \A id \in Pushes :
        (id \in Range(pool.queue) /\ \E w \in Workers : pool.worker[w].pc # "exited")
            ~> (pool.runs[id] = 1 \/ pool.closed)

\* both producers pushed, every accepted task was executed, one Push was
\* dropped on the closed queue, and a worker is inside Pop on the closed queue
DeliveredAndDropped ==
    /\ {pool.by[id] : id \in Range(pool.pushed)} = Producers
    /\ Len(pool.pushed) >= 2
    /\ \A id \in Range(pool.pushed) : pool.runs[id] = 1
    /\ pool.dropped # {}
    /\ pool.closed
    /\ \E w \in Workers : pool.worker[w].pc = "pop"

\* ---------------------------------------------------------------------------
\* two Octrees and the swap between them
\* ---------------------------------------------------------------------------

\* the data members of an Octree
OctreeOf(node, looseness, min_width, node_capacity, growth_limit, shrink_limit, rs) ==
    [root_ |-> node,
     looseness_ |-> looseness,
     min_width_ |-> min_width,
     node_capacity_ |-> node_capacity,
     growth_limit_ |-> growth_limit,
     shrink_limit_ |-> shrink_limit,
     resized_ |-> rs]

\* the trees a caller has built with the arguments of this model
SwapLeft ==
    { OctreeOf(b.node, <<LoosenessNum, LoosenessDen>>, MinWidth, Capacity,
               GrowthLimit, ShrinkLimit, b.resized) :
        b \in {Built(inputs) : inputs \in McInputs} }

\* Octree::Octree with other arguments, nothing inserted
SwapRight ==
    { OctreeOf(Leaf(BoundingBox(InitCentre, InitWidth)), lo, mw, cap, gl, sl, 0) :
        lo \in {<<LoosenessNum, LoosenessDen>>, <<3, 2>>},
        mw \in {MinWidth, 2 * MinWidth},
        cap \in {Capacity, Capacity + 1},
        gl \in {GrowthLimit, GrowthLimit + 1},
        sl \in {ShrinkLimit, ShrinkLimit + 1} }

\* swap(Octree& lhs, Octree& rhs): what lhs and rhs are afterwards
OctreeSwap(lhs, rhs) ==
    [lhs |-> [lhs EXCEPT !.looseness_ = rhs.looseness_,
                         !.min_width_ = rhs.min_width_,
                         !.node_capacity_ = rhs.node_capacity_,
                         !.root_ = rhs.root_],
     rhs |-> [rhs EXCEPT !.looseness_ = lhs.looseness_,
                         !.min_width_ = lhs.min_width_,
                         !.node_capacity_ = lhs.node_capacity_,
                         !.root_ = lhs.root_]]

\* the caller holds two Octrees; root and resized are those of the first
SwapInit ==
    /\ \E lhs \in SwapLeft : \E rhs \in SwapRight :
        /\ root = lhs.root_
        /\ resized = lhs.resized_
        /\ last = [op |-> "new", lhs |-> lhs, rhs |-> rhs, before |-> <<>>]
    /\ pos = [p \in Particles |-> Home]
    /\ moves = 0
    /\ McIdle
    /\ BhNone
    /\ TpNone

\* the caller swaps the two
SwapCall ==
    /\ \E r \in {OctreeSwap(last.lhs, last.rhs)} :
        /\ last' = [op |-> "swap", lhs |-> r.lhs, rhs |-> r.rhs,
                    before |-> <<last.lhs, last.rhs>>]
        /\ root' = r.lhs.root_
        /\ resized' = r.lhs.resized_
    /\ UNCHANGED <<pos, moves, mcVars, bhVars, tpVars>>

NextSwap == SwapCall

SpecSwap == SwapInit /\ [][NextSwap]_vars

\* C39: swap(a, b) exchanges the whole state of two Octrees: root, looseness,
\* minimum width, node capacity, growth limit, shrink limit and the resized
\* counter
SwapExchangesAll ==
    last.op = "swap" /\ Len(last.before) = 2 =>
        /\ last.lhs = last.before[2]
        /\ last.rhs = last.before[1]

\* what the swap does exchange
SwapExchangesSome ==
    last.op = "swap" /\ Len(last.before) = 2 =>
        \A f \in {"root_", "looseness_", "min_width_", "node_capacity_"} :
            /\ last.lhs[f] = last.before[2][f]
            /\ last.rhs[f] = last.before[1][f]

\* ---------------------------------------------------------------------------
\* the StaticOctree: each child is nothing, a Particle or a StaticOctree
\* ---------------------------------------------------------------------------

NoNode == [kind |-> "none"]
ParticleNode(p) == [kind |-> "particle", p |-> p]

\* StaticOctree::StaticOctree(bounds, growth_limit); thrown records that the
\* constructor of a BoundingBox threw inside a call on this tree
StaticOctree(bounds, growth_limit) ==
    [kind |-> "tree",
     bounds |-> bounds,
     stale |-> FALSE,
     growth_limit |-> growth_limit,
     mass |-> 0,
     displacement |-> Frac([i \in Axes |-> 0], 1),
     children |-> [q \in Orthants |-> NoNode],
     thrown |-> FALSE]

\* barneshut::BoundingBox::Contains(point), looseness 1
StContains(b, point) ==
    \A i \in Axes :
        ~(point[i] > b.centre[i] + b.extents[i] \/ point[i] < b.centre[i] - b.extents[i])

\* barneshut::BoundingBox::BoundingBox throws on extents that are not positive
BoxThrows(b) == \E i \in Axes : b.extents[i] <= 0

\* StaticOctree::InsertWithoutUpdate
RECURSIVE InsertWithoutUpdate(_, _, _)
InsertWithoutUpdate(tree, p, ps) ==
    With(OrthantOf(tree.bounds, ps[p]), LAMBDA orthant :
    With(tree.children[orthant], LAMBDA node :
        IF node.kind = "none"
        THEN [tree EXCEPT !.children[orthant] = ParticleNode(p), !.stale = TRUE]
        ELSE IF node.kind = "particle"
        THEN With(ShrinkTo(tree.bounds, orthant), LAMBDA inner :
             IF BoxThrows(inner) THEN [tree EXCEPT !.thrown = TRUE]
             ELSE With(InsertWithoutUpdate(StaticOctree(inner, tree.growth_limit), p, ps),
                       LAMBDA first :
                  With(InsertWithoutUpdate(first, node.p, ps), LAMBDA subtree :
                     IF subtree.thrown THEN [tree EXCEPT !.thrown = TRUE]
                     ELSE [tree EXCEPT !.children[orthant] = subtree, !.stale = TRUE])))
        ELSE With(InsertWithoutUpdate(node, p, ps), LAMBDA subtree :
             IF subtree.thrown
             THEN [tree EXCEPT !.children[orthant] = [subtree EXCEPT !.thrown = FALSE],
                               !.thrown = TRUE]
             ELSE [tree EXCEPT !.children[orthant] = subtree, !.stale = TRUE])))

\* an UpdateIfStale that starts from nothing
ResetTotals(tree) == [tree EXCEPT !.mass = 0, !.displacement = Frac([i \in Axes |-> 0], 1)]

\* UpdateIfStale starts from the mass_ and displacement_ the tree has
KeepTotals(tree) == tree

\* the same vector of fractions in lowest terms
RECURSIVE Gcd(_, _)
Gcd(a, b) == IF b = 0 THEN a ELSE Gcd(b, a % b)
Abs(a) == IF a < 0 THEN -a ELSE a
Lowest(f) ==
    With(Gcd(Gcd(Gcd(f.d, Abs(f.n[1])), Abs(f.n[2])), Abs(f.n[3])), LAMBDA g :
        Frac([i \in Axes |-> f.n[i] \div g], f.d \div g))

\* StaticOctree::UpdateIfStale, and its loop over the children from orthant q on
RECURSIVE UpdateIfStale(_, _)
RECURSIVE UpdateNodes(_, _, _)
UpdateIfStale(tree, ps) ==
    IF ~tree.stale THEN tree
    ELSE With(UpdateNodes(KeepTotals(tree), 0, ps), LAMBDA t :
            [t EXCEPT !.displacement = Lowest(FDiv(@, t.mass)), !.stale = FALSE])
UpdateNodes(tree, q, ps) ==
    IF q \notin Orthants THEN tree
    ELSE With(tree.children[q], LAMBDA node :
         IF node.kind = "none" THEN UpdateNodes(tree, q + 1, ps)
         ELSE IF node.kind = "particle"
         THEN UpdateNodes([tree EXCEPT
                              !.mass = @ + Mass(node.p),
                              !.displacement = FAdd(@, FScale(Mass(node.p), Frac(ps[node.p], 1)))],
                          q + 1, ps)
         ELSE With(UpdateIfStale(node, ps), LAMBDA subtree :
              UpdateNodes([tree EXCEPT
                              !.children[q] = subtree,
                              !.mass = @ + subtree.mass,
                              !.displacement = FAdd(@, FScale(subtree.mass, subtree.displacement))],
                          q + 1, ps)))

\* StaticOctree::ShallowCopy
ShallowCopy(tree) == tree

\* StaticOctree::ContainsOrGrown, from turn i of its loop on; at the end
\* `*this = original->ShallowCopy()` copies the tree onto itself
RECURSIVE ContainsOrGrown(_, _, _)
ContainsOrGrown(tree, point, i) ==
    IF i >= tree.growth_limit
    THEN [tree |-> tree, ok |-> StContains(tree.bounds, point)]
    ELSE IF StContains(tree.bounds, point)
    THEN [tree |-> tree, ok |-> TRUE]
    ELSE With(Invert(OrthantOf(tree.bounds, point)), LAMBDA orthant :
         ContainsOrGrown([tree EXCEPT
                             !.children = [q \in Orthants |->
                                             IF q = orthant THEN ShallowCopy(tree) ELSE NoNode],
                             !.bounds = ExpandFrom(tree.bounds, orthant)],
                         point, i + 1))

\* StaticOctree::Insert(particles), its loop; Insert(particle) is the same
\* with one particle
RECURSIVE InsertEach(_, _, _, _)
InsertEach(tree, particles, ps, success) ==
    IF particles = <<>> \/ tree.thrown THEN [tree |-> tree, success |-> success]
    ELSE With(ContainsOrGrown(tree, ps[Head(particles)], 0), LAMBDA g :
         IF ~g.ok THEN InsertEach(g.tree, Tail(particles), ps, Append(success, FALSE))
         ELSE InsertEach(InsertWithoutUpdate(g.tree, Head(particles), ps),
                         Tail(particles), ps, Append(success, TRUE)))

StaticInsert(tree, particles, ps) ==
    With(InsertEach(tree, particles, ps, <<>>), LAMBDA r :
        [tree |-> IF r.tree.thrown THEN r.tree ELSE UpdateIfStale(r.tree, ps),
         success |-> r.success])

\* where the caller places particles before it inserts them, and the vectors
\* of particles it inserts at once
StPositions == {PosA, PosB, PosD, PosF}
StBatches ==
    {<<p>> : p \in Particles} \cup {b \in Particles \X Particles : b[1] # b[2]}

StInit ==
    /\ root = StaticOctree(BoundingBox(InitCentre, InitWidth), GrowthLimit)
    /\ resized = 0
    /\ pos = [p \in Particles |-> Home]
    /\ moves = 0
    /\ last = [op |-> "new", particles |-> <<>>, success |-> <<>>, held |-> {}, calls |-> 0,
               failed |-> FALSE]
    /\ McIdle
    /\ BhNone
    /\ TpNone

\* the caller places the particles of the vector, none of them in the tree
\* yet and no two particles at one point, and calls StaticOctree::Insert
StInsert(particles, xs) ==
    /\ Range(particles) \cap last.held = {}
    /\ \A p, q \in Range(particles) : p # q => xs[p] # xs[q]
    /\ \A p \in Range(particles) : \A q \in last.held : xs[p] # pos[q]
    /\ \E ps \in {[p \in Particles |-> IF p \in Range(particles) THEN xs[p] ELSE pos[p]]} :
       \E r \in {StaticInsert(root, particles, ps)} :
        /\ ~r.tree.thrown
        /\ root' = r.tree
        /\ pos' = ps
        /\ last' = [op |-> "Insert",
                    particles |-> particles,
                    success |-> r.success,
                    held |-> last.held \cup {particles[i] : i \in {j \in DOMAIN particles : r.success[j]}},
                    calls |-> last.calls + 1,
                    failed |-> last.failed \/ \E j \in DOMAIN particles : ~r.success[j]]
    /\ UNCHANGED <<resized, moves, mcVars, bhVars, tpVars>>

NextStatic ==
    \E particles \in StBatches : \E xs \in [Range(particles) -> StPositions] :
        StInsert(particles, xs)

SpecStatic == StInit /\ [][NextStatic]_vars

\* ---------------------------------------------------------------------------
\* claims on the StaticOctree
\* ---------------------------------------------------------------------------

\* the total mass of the particles in the set, and the sum of their moments
RECURSIVE TotalMass(_)
TotalMass(ps) ==
    IF ps = {} THEN 0 ELSE LET p == CHOOSE p \in ps : TRUE IN Mass(p) + TotalMass(ps \ {p})
RECURSIVE TotalMoment(_, _)
TotalMoment(ps, at) ==
    IF ps = {} THEN [i \in Axes |-> 0]
    ELSE LET p == CHOOSE p \in ps : TRUE
         IN  VAdd(VScale(Mass(p), at[p]), TotalMoment(ps \ {p}, at))

\* Mass() and Displacement() are those of the particles inserted so far
TotalsAreRight ==
    /\ root.mass = TotalMass(last.held)
    /\ VScale(root.mass, root.displacement.n)
         = VScale(root.displacement.d, TotalMoment(last.held, pos))

\* C40: after any sequence of successful Insert calls on a StaticOctree, of
\* one particle or of a vector, Mass() is the sum of the masses of the
\* particles inserted and Displacement() times Mass() the sum of their moments
StaticTotals == last.op = "Insert" /\ ~last.failed => TotalsAreRight

\* the same after the first call alone
StaticTotalsFirstCall == last.op = "Insert" /\ ~last.failed /\ last.calls = 1 => TotalsAreRight

====
